---- MODULE Spec2Model ----
(***************************************************************************)
(* DeploymentConfig -> Deployment conversion of openshift-dc-migration.     *)
(*                                                                         *)
(* A document (unstructured.Unstructured.Object) is a Go                   *)
(* map[string]interface{}: here a function from a finite set of string     *)
(* keys to tagged values.  A tagged value is a record whose first field    *)
(* "kind" names the dynamic Go type and whose field "val" holds the        *)
(* payload, so that values of different dynamic types compare unequal.     *)
(*                                                                         *)
(* Two implementations of convertDCtoDeployment live in the repository:    *)
(* the pipeline of converter.go (copyMetadata, convertSpec, cleanup) and   *)
(* the monolithic one of main.go.  Both are modelled.                      *)
(***************************************************************************)
EXTENDS Integers, Sequences, FiniteSets, TLC

VARIABLES
    dc,                   \* the source document (dc.Object)
    preserveLabels,       \* package-level flag
    preserveAnnotations,  \* package-level flag
    clock,                \* the wall clock read by time.Now()
    deployment,           \* the returned *Unstructured: NilDoc or [Object |-> map]
    err,                  \* the returned error: NoErr or its message
    pc,                   \* "ready", "converter.go", "main.go", "panic";
                          \* in processProject: "project", "loop", "done", "failed"
    conversionInfo,       \* the ConversionInfo built for dc, NoInfo before
    namespace,            \* the project processProject works on
    applyChanges,         \* package-level flag
    items,                \* dcList.Items
    visited,              \* how many items the loop of processProject has visited
    conversionInfos,      \* package-level slice the report is made from
    saved,                \* the YAML files written, by deployment name
    applied,              \* the Deployments created in the cluster
    logged,               \* the messages written to the log file
    outcomes,             \* what each iteration of the loop did, in order
    openShiftProjects,    \* package-level: the projects asked for
    reservedNamespaces,   \* package-level: the reserved namespaces
    clusterNamespaces,    \* the namespaces that exist in the cluster
    validProjects,        \* what validateProjects returned; NotValidated before
    inv,                  \* the invocations running side by side
    flagWrites            \* how often the policy flags were rewritten

vars == <<dc, preserveLabels, preserveAnnotations, clock, deployment, err, pc,
          conversionInfo, namespace, applyChanges, items, visited, conversionInfos,
          saved, applied, logged, outcomes, openShiftProjects, reservedNamespaces,
          clusterNamespaces, validProjects, inv, flagWrites>>

\* the variables of processProject, which a single conversion leaves alone
projectVars == <<namespace, applyChanges, items, visited, conversionInfos, saved,
                 applied, logged, outcomes>>

\* the variables of validateProjects
validateVars == <<openShiftProjects, reservedNamespaces, clusterNamespaces,
                  validProjects>>

\* the variables of the invocations running side by side
concurrentVars == <<inv, flagWrites>>

-----------------------------------------------------------------------------
(* Bounds of the model *)

MaxReplicas == 2     \* source replicas range over 0..MaxReplicas
MaxContainers == 2   \* template container lists have at most this many entries
MaxClock == 1        \* the clock ranges over 0..MaxClock
MaxItems == 2        \* a project holds at most this many DeploymentConfigs

-----------------------------------------------------------------------------
(* Dynamic values: interface{} holding a JSON-compatible Go value *)

VNil == [kind |-> "nil"]
VStr(s) == [kind |-> "string", val |-> s]
VInt(n) == [kind |-> "int64", val |-> n]
VBool(b) == [kind |-> "bool", val |-> b]
VMap(m) == [kind |-> "map", val |-> m]
VSlice(s) == [kind |-> "slice", val |-> s]

IsMap(v) == v.kind = "map"
IsStr(v) == v.kind = "string"
IsInt(v) == v.kind = "int64"

(* Go map[string]interface{} operations *)
EmptyMap == [k \in {} |-> VNil]
Has(m, k) == k \in DOMAIN m
\* m[k]: the zero value nil when the key is absent
Get(m, k) == IF k \in DOMAIN m THEN m[k] ELSE VNil
\* m[k] = v
Put(m, k, v) == [x \in (DOMAIN m) \cup {k} |-> IF x = k THEN v ELSE m[x]]
\* delete(m, k)
Del(m, k) == [x \in (DOMAIN m) \ {k} |-> m[x]]
\* the entries of m whose key is in ks
Restrict(m, ks) == [x \in (DOMAIN m) \cap ks |-> m[x]]

NoErr == "nil"
NilDoc == [isNil |-> TRUE]
NoInfo == [isNil |-> TRUE]
NotValidated == [isNil |-> TRUE]
Doc(obj) == [Object |-> obj]

-----------------------------------------------------------------------------
(* k8s.io/apimachinery unstructured accessors, as the code calls them *)

AccessorError == "accessor error"

\* NestedFieldNoCopy: walk the path; a missing key is "not found", a
\* non-map on the way is an accessor error.
RECURSIVE NestedFieldNoCopy(_, _)
NestedFieldNoCopy(v, fields) ==
    IF fields = <<>> THEN [val |-> v, found |-> TRUE, err |-> NoErr]
    ELSE IF v = VNil THEN [val |-> VNil, found |-> FALSE, err |-> NoErr]
    ELSE IF ~IsMap(v) THEN [val |-> VNil, found |-> FALSE, err |-> AccessorError]
    ELSE IF ~Has(v.val, Head(fields)) THEN [val |-> VNil, found |-> FALSE, err |-> NoErr]
    ELSE NestedFieldNoCopy(v.val[Head(fields)], Tail(fields))

\* NestedMap returning the map found in obj itself instead of a copy of it
NestedMap_noCopy(obj, fields) ==
    LET r == NestedFieldNoCopy(VMap(obj), fields)
    IN  IF ~r.found \/ r.err # NoErr
        THEN [val |-> EmptyMap, found |-> r.found, err |-> r.err, shared |-> FALSE]
        ELSE IF ~IsMap(r.val)
        THEN [val |-> EmptyMap, found |-> FALSE, err |-> AccessorError, shared |-> FALSE]
        ELSE [val |-> r.val.val, found |-> TRUE, err |-> NoErr, shared |-> TRUE]

\* NestedMap: the value must be a map; the result is runtime.DeepCopyJSON of
\* it.  "shared" tells whether the returned map is the storage of obj, in
\* which case a later write into it (delete, m[k] = v) is a write into obj;
\* for a deep copy it is not.
NestedMap(obj, fields) ==
    LET r == NestedFieldNoCopy(VMap(obj), fields)
    IN  IF ~r.found \/ r.err # NoErr
        THEN [val |-> EmptyMap, found |-> r.found, err |-> r.err, shared |-> FALSE]
        ELSE IF ~IsMap(r.val)
        THEN [val |-> EmptyMap, found |-> FALSE, err |-> AccessorError, shared |-> FALSE]
        ELSE [val |-> r.val.val, found |-> TRUE, err |-> NoErr, shared |-> FALSE]

\* NestedInt64: the value must be an int64
NestedInt64(obj, fields) ==
    LET r == NestedFieldNoCopy(VMap(obj), fields)
    IN  IF ~r.found \/ r.err # NoErr THEN [val |-> 0, found |-> r.found, err |-> r.err]
        ELSE IF ~IsInt(r.val) THEN [val |-> 0, found |-> FALSE, err |-> AccessorError]
        ELSE [val |-> r.val.val, found |-> TRUE, err |-> NoErr]

\* NestedString: the value must be a string; "" otherwise
NestedString(obj, fields) ==
    LET r == NestedFieldNoCopy(VMap(obj), fields)
    IN  IF ~r.found \/ r.err # NoErr THEN [val |-> "", found |-> r.found, err |-> r.err]
        ELSE IF ~IsStr(r.val) THEN [val |-> "", found |-> FALSE, err |-> AccessorError]
        ELSE [val |-> r.val.val, found |-> TRUE, err |-> NoErr]

\* NestedSlice: the value must be a []interface{}; the nil slice otherwise
NestedSlice(obj, fields) ==
    LET r == NestedFieldNoCopy(VMap(obj), fields)
    IN  IF ~r.found \/ r.err # NoErr THEN [val |-> <<>>, found |-> r.found, err |-> r.err]
        ELSE IF r.val.kind # "slice" THEN [val |-> <<>>, found |-> FALSE, err |-> AccessorError]
        ELSE [val |-> r.val.val, found |-> TRUE, err |-> NoErr]

\* NestedBool: the value must be a bool; false otherwise
NestedBool(obj, fields) ==
    LET r == NestedFieldNoCopy(VMap(obj), fields)
    IN  IF ~r.found \/ r.err # NoErr THEN [val |-> FALSE, found |-> r.found, err |-> r.err]
        ELSE IF r.val.kind # "bool" THEN [val |-> FALSE, found |-> FALSE, err |-> AccessorError]
        ELSE [val |-> r.val.val, found |-> TRUE, err |-> NoErr]

\* SetNestedField: create the missing maps on the way and set the last key;
\* an existing non-map on the way is an error and leaves obj as it is.
RECURSIVE SetNestedField(_, _, _)
SetNestedField(obj, value, fields) ==
    IF Len(fields) = 1 THEN [obj |-> Put(obj, fields[1], value), err |-> NoErr]
    ELSE LET f == Head(fields)
         IN  IF Has(obj, f) /\ ~IsMap(obj[f]) THEN [obj |-> obj, err |-> AccessorError]
             ELSE LET sub == IF Has(obj, f) THEN obj[f].val ELSE EmptyMap
                      r == SetNestedField(sub, value, Tail(fields))
                  IN  [obj |-> Put(obj, f, VMap(r.obj)), err |-> r.err]

\* SetNestedMap(obj, value, fields...) is SetNestedField of the map
SetNestedMap(obj, m, fields) == SetNestedField(obj, VMap(m), fields)

\* RemoveNestedField: delete the last key if the path to it exists
RECURSIVE RemoveNestedField(_, _)
RemoveNestedField(obj, fields) ==
    IF Len(fields) = 1 THEN Del(obj, fields[1])
    ELSE LET f == Head(fields)
         IN  IF Has(obj, f) /\ IsMap(obj[f])
             THEN Put(obj, f, VMap(RemoveNestedField(obj[f].val, Tail(fields))))
             ELSE obj

\* time.Now().Format(time.RFC3339) at clock reading t
Digits == <<"0", "1", "2", "3", "4", "5", "6", "7", "8", "9">>
FormatRFC3339(t) == "2024-08-16T08:47:0" \o Digits[(t % 10) + 1] \o "-05:00"

-----------------------------------------------------------------------------
(* Package-level configuration *)

dcSpecificLabels == <<"openshift.io/deployment-config.name">>

dcSpecificAnnotations ==
    << "openshift.io/deployment-config.name",
       "openshift.io/deployment-config.latest-version",
       "openshift.io/deployment.phase" >>

GeneratedByKey == "openshift.io/generated-by"
GeneratedByValue == "deploymentconfig-to-deployment-migration"
MigrationTimestampKey == "openshift.io/migration-timestamp"
LegacyKey == "deploymentconfig"

\* contains(slice, s): linear search
contains(slice, s) == \E i \in 1..Len(slice) : slice[i] = s

\* a step that has written obj and returns nil
Ok(obj) == [obj |-> obj, err |-> NoErr]

-----------------------------------------------------------------------------
(* converter.go: the conversion pipeline.  Each step takes the source map  *)
(* it reads and the target object built so far, and returns the target     *)
(* object and the error.                                                    *)

\* the labels kept by copyMetadata: every label not in dcSpecificLabels
copyMetadata_labels(labels) ==
    Restrict(labels, {k \in DOMAIN labels : ~contains(dcSpecificLabels, k)})

\* copyMetadata_annotations with the preserveAnnotations flag ignored
copyMetadata_annotations_ignoreFlag(metadata, pa) ==
    IF IsMap(Get(metadata, "annotations"))
    THEN LET annotations == Get(metadata, "annotations").val
         IN  Restrict(annotations,
                 {k \in DOMAIN annotations : ~contains(dcSpecificAnnotations, k)})
    ELSE EmptyMap

\* the annotations kept by copyMetadata before the fixed entries are set
copyMetadata_annotations(metadata, pa) ==
    IF pa /\ IsMap(Get(metadata, "annotations"))
    THEN LET annotations == Get(metadata, "annotations").val
         IN  Restrict(annotations,
                 {k \in DOMAIN annotations : ~contains(dcSpecificAnnotations, k)})
    ELSE EmptyMap

\* copyMetadata_newMetadata starting from the source metadata instead of
\* an empty map
copyMetadata_newMetadata_fromSource(metadata, pl, pa, now) ==
    LET m1 == Put(Put(metadata, "name", Get(metadata, "name")),
                  "namespace", Get(metadata, "namespace"))
        newLabels ==
            IF pl /\ IsMap(Get(metadata, "labels"))
            THEN copyMetadata_labels(Get(metadata, "labels").val)
            ELSE EmptyMap
        m2 == IF DOMAIN newLabels # {}
              THEN Put(m1, "labels", VMap(newLabels))
              ELSE Del(m1, "labels")
        a1 == copyMetadata_annotations(metadata, pa)
        a2 == Put(a1, GeneratedByKey, VStr(GeneratedByValue))
        a3 == Put(a2, MigrationTimestampKey, VStr(FormatRFC3339(now)))
    IN  Put(m2, "annotations", VMap(a3))

\* the metadata copyMetadata builds from the source metadata
copyMetadata_newMetadata(metadata, pl, pa, now) ==
    LET m1 == Put(Put(EmptyMap, "name", Get(metadata, "name")),
                  "namespace", Get(metadata, "namespace"))
        newLabels ==
            IF pl /\ IsMap(Get(metadata, "labels"))
            THEN copyMetadata_labels(Get(metadata, "labels").val)
            ELSE EmptyMap
        m2 == IF DOMAIN newLabels # {}
              THEN Put(m1, "labels", VMap(newLabels))
              ELSE m1
        a1 == copyMetadata_annotations(metadata, pa)
        a2 == Put(a1, GeneratedByKey, VStr(GeneratedByValue))
        a3 == Put(a2, MigrationTimestampKey, VStr(FormatRFC3339(now)))
    IN  Put(m2, "annotations", VMap(a3))

copyMetadata(dcObj, depObj, pl, pa, now) ==
    LET r == NestedMap(dcObj, <<"metadata">>)
    IN  IF r.err # NoErr
        THEN [obj |-> depObj, err |-> "error getting metadata: " \o r.err]
        ELSE IF ~r.found
        THEN [obj |-> depObj, err |-> "metadata not found in DeploymentConfig"]
        ELSE SetNestedMap(depObj, copyMetadata_newMetadata(r.val, pl, pa, now),
                          <<"metadata">>)

\* setReplicas with the zero value left as the default
setReplicas_defaultZero(spec, depObj) ==
    LET r == NestedInt64(spec, <<"replicas">>)
    IN  IF r.err # NoErr
        THEN [obj |-> depObj, err |-> "error getting replicas: " \o r.err]
        ELSE SetNestedField(depObj, VInt(r.val), <<"spec", "replicas">>)

setReplicas(spec, depObj) ==
    LET r == NestedInt64(spec, <<"replicas">>)
    IN  IF r.err # NoErr
        THEN [obj |-> depObj, err |-> "error getting replicas: " \o r.err]
        ELSE SetNestedField(depObj, VInt(IF ~r.found THEN 1 ELSE r.val),
                            <<"spec", "replicas">>)

\* setSelector without the delete of the legacy key
setSelector_keepLegacyKey(spec, depObj) ==
    LET r == NestedMap(spec, <<"selector">>)
    IN  IF r.err # NoErr
        THEN [obj |-> depObj, err |-> "error getting selector: " \o r.err]
        ELSE IF ~r.found
        THEN [obj |-> depObj, err |-> "selector not found in DeploymentConfig spec"]
        ELSE SetNestedMap(depObj, Put(EmptyMap, "matchLabels", VMap(r.val)),
                          <<"spec", "selector">>)

setSelector(spec, depObj) ==
    LET r == NestedMap(spec, <<"selector">>)
    IN  IF r.err # NoErr
        THEN [obj |-> depObj, err |-> "error getting selector: " \o r.err]
        ELSE IF ~r.found
        THEN [obj |-> depObj, err |-> "selector not found in DeploymentConfig spec"]
        ELSE SetNestedMap(depObj,
                          Put(EmptyMap, "matchLabels", VMap(Del(r.val, LegacyKey))),
                          <<"spec", "selector">>)

\* setTemplate_strip deleting the labels instead of the one key
setTemplate_strip_dropLabels(template) ==
    IF IsMap(Get(template, "metadata"))
       /\ IsMap(Get(Get(template, "metadata").val, "labels"))
    THEN Put(template, "metadata", VMap(Del(Get(template, "metadata").val, "labels")))
    ELSE template

\* the template with the legacy key deleted from metadata.labels, when
\* metadata and labels are both maps
setTemplate_strip(template) ==
    IF IsMap(Get(template, "metadata"))
       /\ IsMap(Get(Get(template, "metadata").val, "labels"))
    THEN LET templateMetadata == Get(template, "metadata").val
             labels == Get(templateMetadata, "labels").val
         IN  Put(template, "metadata",
                 VMap(Put(templateMetadata, "labels", VMap(Del(labels, LegacyKey)))))
    ELSE template

setTemplate(spec, depObj) ==
    LET r == NestedMap(spec, <<"template">>)
    IN  IF r.err # NoErr
        THEN [obj |-> depObj, err |-> "error getting template: " \o r.err]
        ELSE IF ~r.found
        THEN [obj |-> depObj, err |-> "template not found in DeploymentConfig spec"]
        ELSE SetNestedMap(depObj, setTemplate_strip(r.val), <<"spec", "template">>)

\* the rollingUpdate mapping built from rollingParams
setStrategy_updateStrategy(rollingParams) ==
    LET u1 == IF Has(rollingParams, "maxUnavailable")
              THEN Put(EmptyMap, "maxUnavailable", rollingParams["maxUnavailable"])
              ELSE EmptyMap
    IN  IF Has(rollingParams, "maxSurge")
        THEN Put(u1, "maxSurge", rollingParams["maxSurge"])
        ELSE u1

\* setStrategy_switch starting from the source strategy instead of the empty map
setStrategy_switch_copyAll(strategy) ==
    LET strategyType == NestedString(strategy, <<"type">>).val
    IN  CASE strategyType = "Rolling" ->
               LET d == Put(EmptyMap, "type", VStr("RollingUpdate"))
               IN  IF IsMap(Get(strategy, "rollingParams"))
                   THEN Put(d, "rollingUpdate",
                            VMap(setStrategy_updateStrategy(
                                     Get(strategy, "rollingParams").val)))
                   ELSE d
          [] strategyType = "Recreate" -> Put(strategy, "type", VStr("Recreate"))
          [] OTHER -> Put(EmptyMap, "type", VStr("RollingUpdate"))

\* setStrategy_switch with the default case falling into the "Rolling" one
setStrategy_switch_defaultAsRolling(strategy) ==
    LET strategyType == NestedString(strategy, <<"type">>).val
        d == Put(EmptyMap, "type", VStr("RollingUpdate"))
    IN  IF strategyType = "Recreate"
        THEN Put(EmptyMap, "type", VStr("Recreate"))
        ELSE IF IsMap(Get(strategy, "rollingParams"))
        THEN Put(d, "rollingUpdate",
                 VMap(setStrategy_updateStrategy(Get(strategy, "rollingParams").val)))
        ELSE d

\* the switch on the strategy type
setStrategy_switch(strategy) ==
    LET strategyType == NestedString(strategy, <<"type">>).val
    IN  CASE strategyType = "Rolling" ->
               LET d == Put(EmptyMap, "type", VStr("RollingUpdate"))
               IN  IF IsMap(Get(strategy, "rollingParams"))
                   THEN Put(d, "rollingUpdate",
                            VMap(setStrategy_updateStrategy(
                                     Get(strategy, "rollingParams").val)))
                   ELSE d
          [] strategyType = "Recreate" -> Put(EmptyMap, "type", VStr("Recreate"))
          [] OTHER -> Put(EmptyMap, "type", VStr("RollingUpdate"))

\* setStrategy taking a strategy it cannot read for a missing one
setStrategy_ignoreError(spec, depObj) ==
    LET r == NestedMap(spec, <<"strategy">>)
    IN  IF r.err # NoErr \/ ~r.found
        THEN Ok(depObj)
        ELSE SetNestedMap(depObj, setStrategy_switch(r.val), <<"spec", "strategy">>)

\* setStrategy writing the default strategy when the source has none
setStrategy_alwaysSet(spec, depObj) ==
    LET r == NestedMap(spec, <<"strategy">>)
    IN  IF r.err # NoErr
        THEN [obj |-> depObj, err |-> "error getting strategy: " \o r.err]
        ELSE IF ~r.found
        THEN SetNestedMap(depObj, Put(EmptyMap, "type", VStr("RollingUpdate")),
                          <<"spec", "strategy">>)
        ELSE SetNestedMap(depObj, setStrategy_switch(r.val), <<"spec", "strategy">>)

setStrategy(spec, depObj) ==
    LET r == NestedMap(spec, <<"strategy">>)
    IN  IF r.err # NoErr
        THEN [obj |-> depObj, err |-> "error getting strategy: " \o r.err]
        ELSE IF ~r.found
        THEN Ok(depObj)
        ELSE SetNestedMap(depObj, setStrategy_switch(r.val), <<"spec", "strategy">>)

\* the spec map after setSelector: delete(selector, "deploymentconfig") is a
\* write into spec when selector shares its storage
setSelector_written(spec) ==
    LET r == NestedMap(spec, <<"selector">>)
    IN  IF r.err = NoErr /\ r.found /\ r.shared
        THEN Put(spec, "selector", VMap(Del(r.val, LegacyKey)))
        ELSE spec

\* the spec map after setTemplate: delete(labels, "deploymentconfig") is a
\* write into spec when template shares its storage
setTemplate_written(spec) ==
    LET r == NestedMap(spec, <<"template">>)
    IN  IF r.err = NoErr /\ r.found /\ r.shared
        THEN Put(spec, "template", VMap(setTemplate_strip(r.val)))
        ELSE spec

\* the spec map after the setter of one field has run
convertSpec_written(what, spec) ==
    CASE what = "selector" -> setSelector_written(spec)
      [] what = "template" -> setTemplate_written(spec)
      [] OTHER -> spec

\* the setter convertSpec calls for one field of the spec
convertSpec_set(what, spec, depObj) ==
    CASE what = "replicas" -> setReplicas(spec, depObj)
      [] what = "selector" -> setSelector(spec, depObj)
      [] what = "template" -> setTemplate(spec, depObj)
      [] what = "strategy" -> setStrategy(spec, depObj)

\* the setters in the order of todo, up to the first one that fails:
\* [obj, err, spec], spec being the spec map as the setters left it
RECURSIVE convertSpec_setters(_, _, _)
convertSpec_setters(todo, spec, depObj) ==
    IF todo = <<>> THEN [obj |-> depObj, err |-> NoErr, spec |-> spec]
    ELSE LET s == convertSpec_set(Head(todo), spec, depObj)
         IN  IF s.err # NoErr
             THEN [obj |-> s.obj,
                   err |-> "failed to set " \o Head(todo) \o ": " \o s.err,
                   spec |-> convertSpec_written(Head(todo), spec)]
             ELSE convertSpec_setters(Tail(todo),
                                      convertSpec_written(Head(todo), spec), s.obj)

\* the source document after the setters have run on the spec map read from it
convertSpec_source(dcObj, r, spec) ==
    IF r.shared THEN Put(dcObj, "spec", VMap(spec)) ELSE dcObj

\* convertSpec: [obj, err, dc], dc being the source document afterwards
convertSpec(dcObj, depObj) ==
    LET r == NestedMap(dcObj, <<"spec">>)
    IN  IF r.err # NoErr
        THEN [obj |-> depObj, err |-> "error getting spec: " \o r.err, dc |-> dcObj]
        ELSE IF ~r.found
        THEN [obj |-> depObj, err |-> "spec not found in DeploymentConfig", dc |-> dcObj]
        ELSE LET s == convertSpec_setters(
                          <<"replicas", "selector", "template", "strategy">>,
                          r.val, depObj)
             IN  [obj |-> s.obj, err |-> s.err,
                  dc |-> convertSpec_source(dcObj, r, s.spec)]

\* cleanupDeploymentConfig resetting spec.paused instead of removing it
cleanupDeploymentConfig_resetPaused(depObj) ==
    SetNestedField(
        RemoveNestedField(
            RemoveNestedField(depObj, <<"spec", "triggers">>),
            <<"spec", "test">>),
        VBool(FALSE), <<"spec", "paused">>).obj

cleanupDeploymentConfig(depObj) ==
    RemoveNestedField(
        RemoveNestedField(
            RemoveNestedField(depObj, <<"spec", "triggers">>),
            <<"spec", "test">>),
        <<"spec", "paused">>)

\* the target document with the source's kind left in
NewDeployment_sourceKind ==
    Put(Put(EmptyMap, "apiVersion", VStr("apps.openshift.io/v1")),
        "kind", VStr("DeploymentConfig"))

\* the fresh target document
NewDeployment ==
    Put(Put(EmptyMap, "apiVersion", VStr("apps/v1")), "kind", VStr("Deployment"))

\* convertDCtoDeployment_spec with the document built so far returned on error
convertDCtoDeployment_spec_partial(c2) ==
    IF c2.err # NoErr
    THEN [deployment |-> Doc(c2.obj), err |-> "failed to convert spec: " \o c2.err,
          dc |-> c2.dc]
    ELSE [deployment |-> Doc(cleanupDeploymentConfig(c2.obj)), err |-> NoErr,
          dc |-> c2.dc]

\* convertDCtoDeployment from the return of convertSpec on
convertDCtoDeployment_spec(c2) ==
    IF c2.err # NoErr
    THEN [deployment |-> NilDoc, err |-> "failed to convert spec: " \o c2.err,
          dc |-> c2.dc]
    ELSE [deployment |-> Doc(cleanupDeploymentConfig(c2.obj)), err |-> NoErr,
          dc |-> c2.dc]

\* convertDCtoDeployment from the return of copyMetadata on
convertDCtoDeployment_metadata(dcObj, c1) ==
    IF c1.err # NoErr
    THEN [deployment |-> NilDoc, err |-> "failed to copy metadata: " \o c1.err,
          dc |-> dcObj]
    ELSE convertDCtoDeployment_spec(convertSpec(dcObj, c1.obj))

\* convertDCtoDeployment: [deployment, err, dc], dc being the source document
\* as the call left it
convertDCtoDeployment(dcObj, pl, pa, now) ==
    convertDCtoDeployment_metadata(dcObj,
                                   copyMetadata(dcObj, NewDeployment, pl, pa, now))

-----------------------------------------------------------------------------
(* utils.go: what the report says of a DeploymentConfig *)

\* hasTriggers telling whether the field was found
hasTriggers_found(dcObj) ==
    NestedSlice(dcObj, <<"spec", "triggers">>).found

hasTriggers(dcObj) ==
    Len(NestedSlice(dcObj, <<"spec", "triggers">>).val) > 0

\* hasLifecycleHooks looking at the pre hook alone
hasLifecycleHooks_preOnly(dcObj) ==
    NestedMap(dcObj, <<"spec", "strategy", "recreateParams", "pre">>).found

hasLifecycleHooks(dcObj) ==
    LET preHookFound ==
            NestedMap(dcObj, <<"spec", "strategy", "recreateParams", "pre">>).found
        midHookFound ==
            NestedMap(dcObj, <<"spec", "strategy", "recreateParams", "mid">>).found
        postHookFound ==
            NestedMap(dcObj, <<"spec", "strategy", "recreateParams", "post">>).found
    IN  preHookFound \/ midHookFound \/ postHookFound

\* hasAutoRollbacks telling whether the field was found
hasAutoRollbacks_found(dcObj) ==
    NestedBool(dcObj, <<"spec", "strategy", "rollingParams", "autoRollbackEnabled">>).found

hasAutoRollbacks(dcObj) ==
    NestedBool(dcObj, <<"spec", "strategy", "rollingParams", "autoRollbackEnabled">>).val

\* usesCustomStrategies comparing without regard to case
usesCustomStrategies_anyCase(dcObj) ==
    NestedString(dcObj, <<"spec", "strategy", "type">>).val
        \in {"Custom", "custom", "CUSTOM"}

usesCustomStrategies(dcObj) ==
    NestedString(dcObj, <<"spec", "strategy", "type">>).val = "Custom"

\* dc.GetName(): metadata.name when it is a string, "" otherwise
GetName(obj) == NestedString(obj, <<"metadata", "name">>).val

\* NewConversionInfo stamped with a fixed time instead of the clock reading
NewConversionInfo_fixedTime(dcObj, ns, now) ==
    [ Timestamp            |-> FormatRFC3339(0),
      Namespace            |-> ns,
      DeploymentConfigName |-> GetName(dcObj),
      HasTriggers          |-> hasTriggers(dcObj),
      HasLifecycleHooks    |-> hasLifecycleHooks(dcObj),
      HasAutoRollbacks     |-> hasAutoRollbacks(dcObj),
      UsesCustomStrategies |-> usesCustomStrategies(dcObj) ]

\* the ConversionInfo processProject builds for a DeploymentConfig
NewConversionInfo(dcObj, ns, now) ==
    [ Timestamp            |-> FormatRFC3339(now),
      Namespace            |-> ns,
      DeploymentConfigName |-> GetName(dcObj),
      HasTriggers          |-> hasTriggers(dcObj),
      HasLifecycleHooks    |-> hasLifecycleHooks(dcObj),
      HasAutoRollbacks     |-> hasAutoRollbacks(dcObj),
      UsesCustomStrategies |-> usesCustomStrategies(dcObj) ]

-----------------------------------------------------------------------------
(* main.go: the monolithic convertDCtoDeployment *)

\* NestedStringMap: the value must be a map whose values are all strings;
\* the nil map otherwise
NestedStringMap(obj, fields) ==
    LET r == NestedMap(obj, fields)
    IN  IF ~r.found \/ r.err # NoErr
        THEN [val |-> EmptyMap, isNil |-> TRUE, found |-> r.found, err |-> r.err]
        ELSE IF \E k \in DOMAIN r.val : ~IsStr(r.val[k])
        THEN [val |-> EmptyMap, isNil |-> TRUE, found |-> FALSE, err |-> AccessorError]
        ELSE [val |-> r.val, isNil |-> FALSE, found |-> TRUE, err |-> NoErr]

\* delete(m, k) for every k of the slice
DelAll(m, slice) == Restrict(m, {k \in DOMAIN m : ~contains(slice, k)})

\* main.go 227-238: the labels of the copied metadata
main_labels(metadata, pl) ==
    IF pl
    THEN LET labels == NestedStringMap(metadata, <<"labels">>).val
         IN  Put(metadata, "labels", VMap(DelAll(labels, dcSpecificLabels)))
    ELSE RemoveNestedField(metadata, <<"labels">>)

\* main.go 240-257: the annotations of the copied metadata; assigning into
\* the nil map NestedStringMap returned panics
main_annotations(metadata, pa, now) ==
    IF pa
    THEN LET r == NestedStringMap(metadata, <<"annotations">>)
             a1 == DelAll(r.val, dcSpecificAnnotations)
             a2 == Put(a1, GeneratedByKey, VStr(GeneratedByValue))
             a3 == Put(a2, MigrationTimestampKey, VStr(FormatRFC3339(now)))
         IN  IF r.isNil
             THEN [metadata |-> metadata, panic |-> TRUE]
             ELSE [metadata |-> Put(metadata, "annotations", VMap(a3)), panic |-> FALSE]
    ELSE [metadata |->
              Put(RemoveNestedField(metadata, <<"annotations">>), "annotations",
                  VMap(Put(Put(EmptyMap, GeneratedByKey, VStr(GeneratedByValue)),
                           MigrationTimestampKey, VStr(FormatRFC3339(now))))),
          panic |-> FALSE]

\* main.go 319-328: the rollingUpdate mapping; a value is copied only when
\* NestedString finds a string
main_copyString(updateStrategy, rollingParams, key) ==
    LET r == NestedString(rollingParams, <<key>>)
    IN  IF r.found THEN Put(updateStrategy, key, VStr(r.val)) ELSE updateStrategy

main_updateStrategy(rollingParams) ==
    main_copyString(main_copyString(EmptyMap, rollingParams, "maxUnavailable"),
                    rollingParams, "maxSurge")

\* main.go 314-334: the switch on the strategy type
main_strategy(strategy) ==
    LET strategyType == NestedString(strategy, <<"type">>).val
        rp == NestedMap(strategy, <<"rollingParams">>)
    IN  CASE strategyType = "Rolling" ->
               LET d == Put(EmptyMap, "type", VStr("RollingUpdate"))
               IN  IF rp.found /\ rp.err = NoErr
                   THEN Put(d, "rollingUpdate", VMap(main_updateStrategy(rp.val)))
                   ELSE d
          [] strategyType = "Recreate" -> Put(EmptyMap, "type", VStr("Recreate"))
          [] OTHER -> Put(EmptyMap, "type", VStr("RollingUpdate"))

\* main.go 272-282: replicas
main_replicas(spec, depObj) ==
    LET r == NestedInt64(spec, <<"replicas">>)
    IN  IF r.err # NoErr
        THEN [obj |-> depObj, err |-> "error getting replicas: " \o r.err]
        ELSE SetNestedField(depObj, VInt(IF ~r.found THEN 1 ELSE r.val),
                            <<"spec", "replicas">>)

\* main.go 284-294: selector
main_selector(spec, depObj) ==
    LET r == NestedMap(spec, <<"selector">>)
    IN  IF r.err # NoErr
        THEN [obj |-> depObj, err |-> "error getting selector: " \o r.err]
        ELSE IF ~r.found
        THEN [obj |-> depObj, err |-> "selector not found in DeploymentConfig spec"]
        ELSE SetNestedMap(depObj, Put(EmptyMap, "matchLabels", VMap(r.val)),
                          <<"spec", "selector">>)

\* main.go 296-306: template
main_template(spec, depObj) ==
    LET r == NestedMap(spec, <<"template">>)
    IN  IF r.err # NoErr
        THEN [obj |-> depObj, err |-> "error getting template: " \o r.err]
        ELSE IF ~r.found
        THEN [obj |-> depObj, err |-> "template not found in DeploymentConfig spec"]
        ELSE SetNestedMap(depObj, r.val, <<"spec", "template">>)

\* main.go 308-338: strategy
main_strategyField(spec, depObj) ==
    LET r == NestedMap(spec, <<"strategy">>)
    IN  IF r.err # NoErr
        THEN [obj |-> depObj, err |-> "error getting strategy: " \o r.err]
        ELSE IF ~r.found
        THEN Ok(depObj)
        ELSE SetNestedMap(depObj, main_strategy(r.val), <<"spec", "strategy">>)

\* one field of the spec
main_set(what, spec, depObj) ==
    CASE what = "replicas" -> main_replicas(spec, depObj)
      [] what = "selector" -> main_selector(spec, depObj)
      [] what = "template" -> main_template(spec, depObj)
      [] what = "strategy" -> main_strategyField(spec, depObj)

\* the fields in the order of todo, up to the first failure
RECURSIVE main_fields(_, _, _)
main_fields(todo, spec, depObj) ==
    IF todo = <<>> THEN Ok(depObj)
    ELSE LET s == main_set(Head(todo), spec, depObj)
         IN  IF s.err # NoErr
             THEN [obj |-> s.obj, err |-> s.err]
             ELSE main_fields(Tail(todo), spec, s.obj)

\* main.go 263-338: the spec of the target
main_spec(dcObj, depObj) ==
    LET r == NestedMap(dcObj, <<"spec">>)
    IN  IF r.err # NoErr
        THEN [obj |-> depObj, err |-> "error getting spec: " \o r.err]
        ELSE IF ~r.found
        THEN [obj |-> depObj, err |-> "spec not found in DeploymentConfig"]
        ELSE main_fields(<<"replicas", "selector", "template", "strategy">>,
                         r.val, depObj)

\* main.go 227-261: labels, annotations and the write to the target; [obj, err, panic]
main_metadata_copy(metadata, depObj, pl, pa, now) ==
    LET ma == main_annotations(main_labels(metadata, pl), pa, now)
    IN  IF ma.panic
        THEN [obj |-> depObj, err |-> NoErr, panic |-> TRUE]
        ELSE [obj |-> SetNestedMap(depObj, ma.metadata, <<"metadata">>).obj,
              err |-> NoErr, panic |-> FALSE]

\* main.go 218-261: the metadata of the target; [obj, err, panic]
main_metadata(dcObj, depObj, pl, pa, now) ==
    LET r == NestedMap(dcObj, <<"metadata">>)
    IN  IF r.err # NoErr
        THEN [obj |-> depObj, err |-> "error getting metadata: " \o r.err, panic |-> FALSE]
        ELSE IF ~r.found
        THEN [obj |-> depObj, err |-> "metadata not found in DeploymentConfig",
              panic |-> FALSE]
        ELSE main_metadata_copy(r.val, depObj, pl, pa, now)

\* main.go 263-345: from the spec on
main_convertDCtoDeployment_spec(sp) ==
    IF sp.err # NoErr
    THEN [deployment |-> NilDoc, err |-> sp.err, panic |-> FALSE]
    ELSE [deployment |-> Doc(cleanupDeploymentConfig(sp.obj)), err |-> NoErr,
          panic |-> FALSE]

\* main.go 218-345: from the metadata on
main_convertDCtoDeployment_metadata(dcObj, m) ==
    IF m.panic THEN [deployment |-> NilDoc, err |-> NoErr, panic |-> TRUE]
    ELSE IF m.err # NoErr THEN [deployment |-> NilDoc, err |-> m.err, panic |-> FALSE]
    ELSE main_convertDCtoDeployment_spec(main_spec(dcObj, m.obj))

\* main.go 210-346: [deployment, err, panic]
main_convertDCtoDeployment(dcObj, pl, pa, now) ==
    main_convertDCtoDeployment_metadata(dcObj,
        main_metadata(dcObj, NewDeployment, pl, pa, now))

\* main.go 219-257: the source document after the call: the labels and the
\* annotations are written into metadata in place, which is a write into
\* the source when metadata shares its storage
main_source(dcObj, pl, pa, now) ==
    LET r == NestedMap(dcObj, <<"metadata">>)
    IN  IF r.err = NoErr /\ r.found /\ r.shared
        THEN Put(dcObj, "metadata",
                 VMap(main_annotations(main_labels(r.val, pl), pa, now).metadata))
        ELSE dcObj

-----------------------------------------------------------------------------
(* The source documents the conversion is run on *)

\* marks a field left out of a map under construction
Absent == [kind |-> "absent"]
\* the map of the fields of f that are not Absent
MkMap(f) == [k \in {x \in DOMAIN f : f[x] # Absent} |-> f[k]]
\* the maps made of some of the entries of m
SubMaps(m) == {Restrict(m, ks) : ks \in SUBSET (DOMAIN m)}

LabelsFull ==
    ("app" :> VStr("test-app")) @@ ("openshift.io/deployment-config.name" :> VStr("test-dc"))

AnnotationsFull ==
    ("openshift.io/deployment-config.name" :> VStr("test-dc"))
    @@ (GeneratedByKey :> VStr("OpenShiftWebConsole"))
    @@ ("description" :> VStr("kept"))

SelectorFull ==
    ("app" :> VStr("test-app")) @@ (LegacyKey :> VStr("test-dc"))

LabelChoices ==
    {Absent, VStr("not-a-map"), VMap("app" :> VInt(1))}
    \cup {VMap(m) : m \in SubMaps(LabelsFull)}

AnnotationChoices ==
    {Absent, VStr("not-a-map")} \cup {VMap(m) : m \in SubMaps(AnnotationsFull)}

NameChoices ==
    { <<VStr("test-dc"), VStr("test-namespace")>>,
      <<Absent, VStr("test-namespace")>>,
      <<VStr("test-dc"), Absent>> }

MetadataChoices ==
    {Absent, VStr("not-a-map")}
    \cup {VMap(MkMap([name |-> n[1], namespace |-> n[2], labels |-> l,
                      annotations |-> a, uid |-> u])) :
            n \in NameChoices, l \in LabelChoices, a \in AnnotationChoices,
            u \in {Absent, VStr("8a0d")}}

MetadataCore ==
    { Absent, VStr("not-a-map"),
      VMap([name |-> VStr("test-dc"), namespace |-> VStr("test-namespace")]),
      VMap([name |-> VStr("test-dc"), namespace |-> VStr("test-namespace"),
            labels |-> VMap(LabelsFull), annotations |-> VMap(AnnotationsFull),
            uid |-> VStr("8a0d")]) }

Container(n) == VMap([name |-> VStr(n), image |-> VStr(n \o ":latest")])
ContainerLists ==
    UNION {[1..n -> {Container("web"), Container("sidecar")}] : n \in 0..MaxContainers}

TemplateMetadataChoices ==
    {Absent, VStr("not-a-map")}
    \cup {VMap(MkMap([name |-> VStr("pod"), labels |-> l])) :
            l \in {Absent, VStr("not-a-map")} \cup {VMap(m) : m \in SubMaps(SelectorFull)}}

TemplateChoices ==
    {Absent, VStr("not-a-map")}
    \cup {VMap(MkMap([metadata |-> tm, spec |-> VMap([containers |-> VSlice(cs)])])) :
            tm \in TemplateMetadataChoices, cs \in ContainerLists}

TemplateTypical ==
    VMap([metadata |-> VMap([name |-> VStr("pod"), labels |-> VMap(SelectorFull)]),
          spec |-> VMap([containers |-> VSlice(<<Container("web"), Container("sidecar")>>)])])

TemplateCore ==
    { Absent, VStr("not-a-map"), TemplateTypical,
      VMap([spec |-> VMap([containers |-> VSlice(<<Container("web")>>)])]) }

RollingParamsChoices ==
    {Absent, VStr("not-a-map")}
    \cup {VMap(MkMap([maxUnavailable |-> mu, maxSurge |-> ms,
                      timeoutSeconds |-> VInt(600)])) :
            mu \in {Absent, VStr("25%"), VInt(1)},
            ms \in {Absent, VStr("50%"), VInt(2)}}

StrategyChoices ==
    {Absent, VStr("not-a-map")}
    \cup {VMap(MkMap([type |-> t, rollingParams |-> rp, recreateParams |-> rc])) :
            t \in {Absent, VStr("Rolling"), VStr("Recreate"), VStr("Custom"),
                   VStr("rolling"), VInt(7)},
            rp \in RollingParamsChoices,
            rc \in {Absent, VMap([pre |-> VMap(EmptyMap), timeoutSeconds |-> VInt(600)])}}

StrategyCore ==
    { Absent,
      VMap([type |-> VStr("Rolling"),
            rollingParams |-> VMap([maxUnavailable |-> VStr("25%")])]),
      VMap([type |-> VStr("Recreate")]) }

ReplicasChoices == {Absent, VStr("3")} \cup {VInt(n) : n \in 0..MaxReplicas}

SelectorChoices ==
    {Absent, VStr("not-a-map")} \cup {VMap(m) : m \in SubMaps(SelectorFull)}

\* the fields of the source spec that only a DeploymentConfig has
LegacyChoices ==
    { [triggers |-> Absent, test |-> Absent, paused |-> Absent,
       revisionHistoryLimit |-> Absent],
      [triggers |-> VSlice(<<VMap([type |-> VStr("ConfigChange")])>>),
       test |-> VBool(FALSE), paused |-> VBool(TRUE),
       revisionHistoryLimit |-> VInt(10)] }

SpecMap(r, sel, t, st, lg) ==
    VMap(MkMap([replicas |-> r, selector |-> sel, template |-> t, strategy |-> st,
                triggers |-> lg.triggers, test |-> lg.test, paused |-> lg.paused,
                revisionHistoryLimit |-> lg.revisionHistoryLimit]))

NoLegacy ==
    [triggers |-> Absent, test |-> Absent, paused |-> Absent,
     revisionHistoryLimit |-> Absent]

SpecChoices ==
    {Absent, VStr("not-a-map")}
    \cup {SpecMap(r, sel, t, st, lg) :
            r \in ReplicasChoices, sel \in SelectorChoices, t \in TemplateCore,
            st \in StrategyCore, lg \in LegacyChoices}
    \cup {SpecMap(VInt(MaxReplicas), VMap(SelectorFull), t, Absent, NoLegacy) :
            t \in TemplateChoices}
    \cup {SpecMap(Absent, VMap(SelectorFull), TemplateTypical, st, NoLegacy) :
            st \in StrategyChoices}

SpecCore ==
    { Absent, VStr("not-a-map"),
      SpecMap(Absent, VMap(SelectorFull), TemplateTypical, Absent, NoLegacy),
      SpecMap(VInt(MaxReplicas), VMap(SelectorFull), TemplateTypical,
              VMap([type |-> VStr("Rolling"),
                    rollingParams |-> VMap([maxUnavailable |-> VStr("25%")])]),
              NoLegacy) }

\* the fields the report's predicates read
HookChoices == {Absent, VMap([failurePolicy |-> VStr("Abort")]), VStr("not-a-map")}

RecreateParamsChoices ==
    {Absent, VStr("not-a-map")}
    \cup {VMap(MkMap([pre |-> a, mid |-> b, post |-> c, timeoutSeconds |-> VInt(600)])) :
            a \in HookChoices, b \in HookChoices, c \in HookChoices}
    \cup {VMap([pre |-> v]) : v \in {VNil, VBool(FALSE), VMap(EmptyMap)}}

AutoRollbackChoices ==
    {Absent, VBool(TRUE), VBool(FALSE), VStr("true"), VInt(1)}

TriggersChoices ==
    { Absent, VNil, VStr("ConfigChange"), VSlice(<<>>),
      VSlice(<<VMap([type |-> VStr("ConfigChange")])>>),
      VSlice(<<VMap([type |-> VStr("ConfigChange")]),
               VMap([type |-> VStr("ImageChange")])>>) }

InspectedStrategyChoices ==
    {Absent, VStr("not-a-map"), VMap([rollingParams |-> VStr("not-a-map")])}
    \cup {VMap(MkMap([type |-> VStr("Recreate"), recreateParams |-> rc])) :
            rc \in RecreateParamsChoices}
    \cup {VMap([type |-> VStr("Rolling"),
                rollingParams |-> VMap(MkMap([autoRollbackEnabled |-> ar,
                                              maxSurge |-> VStr("50%")]))]) :
            ar \in AutoRollbackChoices}
    \cup {VMap(MkMap([type |-> t])) :
            t \in {Absent, VStr("Custom"), VStr("custom"), VStr("Rolling"),
                   VStr("Recreate"), VBool(TRUE)}}

InspectedSpecChoices ==
    {SpecMap(VInt(1), VMap(SelectorFull), TemplateTypical, st,
             [triggers |-> tr, test |-> Absent, paused |-> Absent,
              revisionHistoryLimit |-> Absent]) :
        st \in InspectedStrategyChoices, tr \in TriggersChoices}

Document(m, sp) ==
    MkMap([apiVersion |-> VStr("apps.openshift.io/v1"), kind |-> VStr("DeploymentConfig"),
           metadata |-> m, spec |-> sp,
           status |-> VMap([latestVersion |-> VInt(1)])])

Documents ==
    {Document(m, sp) : m \in MetadataChoices, sp \in SpecCore}
    \cup {Document(m, sp) : m \in MetadataCore, sp \in SpecChoices}
    \cup {Document(m, sp) : m \in MetadataCore, sp \in InspectedSpecChoices}

\* the DeploymentConfigs of a project: by name, some that convert and some
\* that do not
ProjectDocuments ==
    {Document(VMap([name |-> VStr(n), namespace |-> VStr("project1")]), sp) :
        n \in {"dc-a", "dc-b"},
        sp \in { SpecMap(VInt(1), VMap(SelectorFull), TemplateTypical,
                         VMap([type |-> VStr("Custom")]),
                         [triggers |-> VSlice(<<VMap([type |-> VStr("ConfigChange")])>>),
                          test |-> Absent, paused |-> Absent,
                          revisionHistoryLimit |-> Absent]),
                 SpecMap(Absent, VMap(SelectorFull), TemplateTypical, Absent, NoLegacy),
                 SpecMap(VInt(1), Absent, TemplateTypical, Absent, NoLegacy) }}
    \cup {Document(Absent,
                   SpecMap(VInt(1), VMap(SelectorFull), TemplateTypical, Absent, NoLegacy))}

\* dcList.Items: the lists getDCs may return
ItemLists == UNION {[1..n -> ProjectDocuments] : n \in 0..MaxItems}

-----------------------------------------------------------------------------
(* The state machine *)

\* validateProjects is not running
ValidateIdle ==
    /\ openShiftProjects = <<>>
    /\ reservedNamespaces = <<>>
    /\ clusterNamespaces = {}
    /\ validProjects = NotValidated

\* no invocations run side by side
ConcurrentIdle ==
    /\ inv = <<>>
    /\ flagWrites = 0

Init ==
    /\ dc \in Documents
    /\ preserveLabels \in BOOLEAN
    /\ preserveAnnotations \in BOOLEAN
    /\ clock = 0
    /\ deployment = NilDoc
    /\ err = NoErr
    /\ pc = "ready"
    /\ conversionInfo = NoInfo
    /\ namespace = "project1"
    /\ applyChanges = FALSE
    /\ items = <<>>
    /\ visited = 0
    /\ conversionInfos = <<>>
    /\ saved = EmptyMap
    /\ applied = <<>>
    /\ logged = <<>>
    /\ outcomes = <<>>
    /\ ValidateIdle
    /\ ConcurrentIdle

\* wall-clock time passes
Tick ==
    /\ pc = "ready"
    /\ clock < MaxClock
    /\ clock' = clock + 1
    /\ UNCHANGED <<dc, preserveLabels, preserveAnnotations, deployment, err, pc,
                   conversionInfo>>
    /\ UNCHANGED projectVars
    /\ UNCHANGED <<validateVars, concurrentVars>>

\* converter.go 79-87: conversionInfo := ConversionInfo{...}
Inspect ==
    /\ pc = "ready"
    /\ conversionInfo = NoInfo
    /\ conversionInfo' = NewConversionInfo(dc, namespace, clock)
    /\ UNCHANGED <<dc, preserveLabels, preserveAnnotations, clock, deployment, err, pc>>
    /\ UNCHANGED projectVars
    /\ UNCHANGED <<validateVars, concurrentVars>>

\* converter.go: deployment, err := convertDCtoDeployment(&dc)
Convert ==
    /\ pc = "ready"
    /\ LET r == convertDCtoDeployment(dc, preserveLabels, preserveAnnotations, clock)
       IN  /\ deployment' = r.deployment
           /\ err' = r.err
           /\ dc' = r.dc
    /\ pc' = "converter.go"
    /\ UNCHANGED <<preserveLabels, preserveAnnotations, clock, conversionInfo>>
    /\ UNCHANGED projectVars
    /\ UNCHANGED <<validateVars, concurrentVars>>

\* main.go: deployment, err := convertDCtoDeployment(&dc)
ConvertMain ==
    /\ pc = "ready"
    /\ LET r == main_convertDCtoDeployment(dc, preserveLabels, preserveAnnotations, clock)
       IN  /\ deployment' = r.deployment
           /\ err' = r.err
           /\ pc' = IF r.panic THEN "panic" ELSE "main.go"
    /\ dc' = main_source(dc, preserveLabels, preserveAnnotations, clock)
    /\ UNCHANGED <<preserveLabels, preserveAnnotations, clock, conversionInfo>>
    /\ UNCHANGED projectVars
    /\ UNCHANGED <<validateVars, concurrentVars>>

Next == Tick \/ Inspect \/ Convert \/ ConvertMain

Spec == Init /\ [][Next]_vars

-----------------------------------------------------------------------------
(* processProject of converter.go over the DeploymentConfigs of a project *)

InitProject ==
    /\ items \in ItemLists
    /\ preserveLabels \in BOOLEAN
    /\ preserveAnnotations \in BOOLEAN
    /\ applyChanges \in BOOLEAN
    /\ namespace = "project1"
    /\ clock = 0
    /\ dc = EmptyMap
    /\ deployment = NilDoc
    /\ err = NoErr
    /\ conversionInfo = NoInfo
    /\ visited = 0
    /\ conversionInfos = <<>>
    /\ saved = EmptyMap
    /\ applied = <<>>
    /\ logged = <<>>
    /\ outcomes = <<>>
    /\ ValidateIdle
    /\ ConcurrentIdle
    /\ pc = "project"

\* converter.go 63-66: dcList, err := getDCs(client, namespace)
GetDCs ==
    /\ pc = "project"
    /\ \E ok \in BOOLEAN : pc' = IF ok THEN "loop" ELSE "failed"
    /\ UNCHANGED <<dc, preserveLabels, preserveAnnotations, clock, deployment, err,
                   conversionInfo>>
    /\ UNCHANGED projectVars
    /\ UNCHANGED <<validateVars, concurrentVars>>

\* how a file write or a cluster call ends
IOResults == {"ok", "error", "panic"}

\* ProcessDC_steps creating the Deployment whether or not its file was written
ProcessDC_steps_applyUnsaved(r, saveResult, applyResult) ==
    LET save == IF r.err # NoErr THEN "skipped" ELSE saveResult
        apply == IF r.err = NoErr /\ save # "panic" /\ applyChanges
                 THEN applyResult ELSE "skipped"
    IN  [converted |-> r.err = NoErr, save |-> save, apply |-> apply]

\* the calls one iteration makes after convertDCtoDeployment has returned r,
\* and how each ended (converter.go 90-113): saveDeploymentYAML only after a
\* conversion without error, applyDeployment only after a save without error
\* and under applyChanges
ProcessDC_steps(r, saveResult, applyResult) ==
    LET save == IF r.err # NoErr THEN "skipped" ELSE saveResult
        apply == IF save = "ok" /\ applyChanges THEN applyResult ELSE "skipped"
    IN  [converted |-> r.err = NoErr, save |-> save, apply |-> apply]

\* the message the iteration sends to the log, "" when it sends none
ProcessDC_message(st) ==
    IF ~st.converted THEN "Error converting DeploymentConfig"
    ELSE IF st.save = "error" THEN "Error saving Deployment YAML"
    ELSE IF st.save = "panic" \/ st.apply = "panic"
    THEN "Panic occurred while processing DeploymentConfig"
    ELSE IF st.apply = "error" THEN "Error applying Deployment"
    ELSE ""

\* the iteration reaches the append of converter.go 115
ProcessDC_recorded(st) ==
    st.save = "ok" /\ st.apply \in {"skipped", "ok", "error"}

\* processProject giving up at the first DeploymentConfig that fails
ProcessDC_next_abort(st) ==
    IF ProcessDC_recorded(st) THEN "loop" ELSE "failed"

\* where processProject goes after an iteration: the return of lines 95 and
\* 103 and the recover of lines 70-77 end the closure, never the loop
ProcessDC_next(st) == "loop"

\* the effects of one iteration of converter.go, st being its steps
ProcessDC_outcome(info, r, st, logOk) ==
    /\ saved' = IF st.save = "ok"
                 THEN Put(saved, GetName(r.deployment.Object), r.deployment.Object)
                 ELSE saved
    /\ applied' = IF st.apply = "ok"
                   THEN Append(applied, r.deployment.Object)
                   ELSE applied
    /\ logged' = IF ProcessDC_message(st) # "" /\ logOk
                  THEN Append(logged, ProcessDC_message(st))
                  ELSE logged
    /\ conversionInfos' = IF ProcessDC_recorded(st)
                           THEN Append(conversionInfos, info)
                           ELSE conversionInfos
    /\ outcomes' = Append(outcomes, st)
    /\ pc' = ProcessDC_next(st)

\* converter.go 68-116: one iteration of the loop over dcList.Items; the
\* clock is read for the ConversionInfo (t1) and again by copyMetadata (t2);
\* the file write, the cluster call and the write to the log end in any way
ProcessDC ==
    /\ pc = "loop"
    /\ visited < Len(items)
    /\ \E t1 \in clock..MaxClock : \E t2 \in t1..MaxClock :
       \E saveResult \in IOResults : \E applyResult \in IOResults :
       \E logOk \in BOOLEAN :
       \E info \in {NewConversionInfo(items[visited + 1], namespace, t1)} :
       \E r \in {convertDCtoDeployment(items[visited + 1], preserveLabels,
                                        preserveAnnotations, t2)} :
       \E st \in {ProcessDC_steps(r, saveResult, applyResult)} :
              /\ conversionInfo' = info
              /\ deployment' = r.deployment
              /\ err' = r.err
              /\ dc' = r.dc
              /\ items' = [items EXCEPT ![visited + 1] = r.dc]
              /\ clock' = t2
              /\ ProcessDC_outcome(info, r, st, logOk)
    /\ visited' = visited + 1
    /\ UNCHANGED <<preserveLabels, preserveAnnotations, namespace, applyChanges>>
    /\ UNCHANGED <<validateVars, concurrentVars>>

\* converter.go 119: return nil
Return ==
    /\ pc = "loop"
    /\ visited = Len(items)
    /\ pc' = "done"
    /\ UNCHANGED <<dc, preserveLabels, preserveAnnotations, clock, deployment, err,
                   conversionInfo>>
    /\ UNCHANGED projectVars
    /\ UNCHANGED <<validateVars, concurrentVars>>

\* main.go 127-132: dcList, err := getDCs(dynamicClient, project); a failure
\* is logged and the project skipped; a log that cannot be written ends
\* runConverter with an error
GetDCsMain ==
    /\ pc = "project"
    /\ \E ok \in BOOLEAN : \E logOk \in BOOLEAN :
          /\ pc' = IF ok THEN "loop.main" ELSE IF logOk THEN "done.main" ELSE "failed"
          /\ logged' = IF ~ok /\ logOk
                        THEN Append(logged, "Error getting DeploymentConfigs")
                        ELSE logged
    /\ UNCHANGED <<dc, preserveLabels, preserveAnnotations, clock, deployment, err,
                   conversionInfo>>
    /\ UNCHANGED <<namespace, applyChanges, items, visited, conversionInfos, saved,
                   applied, outcomes>>
    /\ UNCHANGED <<validateVars, concurrentVars>>

\* main.go 136-157: the calls one iteration makes after convertDCtoDeployment
\* has returned r, and how each ended
main_steps(r, saveResult, applyResult) ==
    LET save == IF r.err # NoErr THEN "skipped" ELSE saveResult
        apply == IF save = "ok" /\ applyChanges THEN applyResult ELSE "skipped"
    IN  [converted |-> r.err = NoErr, save |-> save, apply |-> apply]

\* main.go 137-155: the message the iteration sends to the log
main_message(st) ==
    IF ~st.converted THEN "Error converting DeploymentConfig"
    ELSE IF st.save = "error" THEN "Error saving Deployment YAML"
    ELSE IF st.apply = "error" THEN "Error applying Deployment"
    ELSE ""

\* main.go 135-158: where runConverter goes after an iteration: nothing
\* recovers a panic, and a message that cannot be logged is returned as an
\* error
main_next(r, st, logOk) ==
    IF r.panic \/ st.save = "panic" \/ st.apply = "panic" THEN "panic"
    ELSE IF main_message(st) # "" /\ ~logOk THEN "failed"
    ELSE "loop.main"

\* main.go 134-159: one iteration of the loop over dcList.Items
ProcessDCMain ==
    /\ pc = "loop.main"
    /\ visited < Len(items)
    /\ \E t \in clock..MaxClock :
       \E saveResult \in IOResults : \E applyResult \in IOResults :
       \E logOk \in BOOLEAN :
       \E r \in {main_convertDCtoDeployment(items[visited + 1], preserveLabels,
                                             preserveAnnotations, t)} :
       \E src \in {main_source(items[visited + 1], preserveLabels,
                                preserveAnnotations, t)} :
       \E st \in {IF r.panic
                   THEN [converted |-> FALSE, save |-> "skipped", apply |-> "skipped"]
                   ELSE main_steps(r, saveResult, applyResult)} :
              /\ deployment' = r.deployment
              /\ err' = r.err
              /\ dc' = src
              /\ items' = [items EXCEPT ![visited + 1] = src]
              /\ clock' = t
              /\ saved' = IF st.save = "ok"
                           THEN Put(saved, GetName(r.deployment.Object),
                                    r.deployment.Object)
                           ELSE saved
              /\ applied' = IF st.apply = "ok"
                             THEN Append(applied, r.deployment.Object)
                             ELSE applied
              /\ logged' = IF ~r.panic /\ main_message(st) # "" /\ logOk
                            THEN Append(logged, main_message(st))
                            ELSE logged
              /\ outcomes' = Append(outcomes, st)
              /\ pc' = main_next(r, st, logOk)
    /\ visited' = visited + 1
    /\ UNCHANGED <<preserveLabels, preserveAnnotations, namespace, applyChanges,
                   conversionInfo, conversionInfos>>
    /\ UNCHANGED <<validateVars, concurrentVars>>

\* main.go 160: the loop over dcList.Items ends
ReturnMain ==
    /\ pc = "loop.main"
    /\ visited = Len(items)
    /\ pc' = "done.main"
    /\ UNCHANGED <<dc, preserveLabels, preserveAnnotations, clock, deployment, err,
                   conversionInfo>>
    /\ UNCHANGED projectVars
    /\ UNCHANGED <<validateVars, concurrentVars>>

NextProject == GetDCs \/ ProcessDC \/ Return \/ GetDCsMain \/ ProcessDCMain \/ ReturnMain

SpecProject == InitProject /\ [][NextProject]_vars

-----------------------------------------------------------------------------
(* Invocations of the conversion running side by side *)

MaxFlagWrites == 1   \* the policy flags are rewritten at most this often

\* the invocations that run side by side
InvocationIds == {"A", "B"}

\* the source documents of the invocations: with labels and annotations for
\* the policy flags to act on, without metadata, without selector
InvocationDocuments ==
    {Document(m, sp) :
        m \in { VMap([name |-> VStr("dc-a"), namespace |-> VStr("project1"),
                      labels |-> VMap(LabelsFull),
                      annotations |-> VMap(AnnotationsFull)]),
                VMap([name |-> VStr("dc-b"), namespace |-> VStr("project1")]),
                Absent },
        sp \in { SpecMap(VInt(1), VMap(SelectorFull), TemplateTypical, Absent, NoLegacy),
                 SpecMap(VInt(1), Absent, TemplateTypical, Absent, NoLegacy) }}

\* an invocation that has not begun: its own copy of the source document,
\* nothing read yet; pl0 and pa0 are the policy flags in force at its start
InvocationStart(d, pl0, pa0, t0) ==
    [ source |-> d, dc |-> d, stage |-> "start",
      pl0 |-> pl0, pa0 |-> pa0, t0 |-> t0,
      pl |-> FALSE, pa |-> FALSE, reads |-> {},
      tInfo |-> t0, tMeta |-> t0,
      info |-> NoInfo, deployment |-> NilDoc, err |-> NoErr ]

InitInvocations ==
    /\ preserveLabels \in BOOLEAN
    /\ preserveAnnotations \in BOOLEAN
    /\ clock = 0
    /\ inv \in [InvocationIds ->
                   {InvocationStart(d, preserveLabels, preserveAnnotations, 0) :
                        d \in InvocationDocuments}]
    /\ flagWrites = 0
    /\ namespace = "project1"
    /\ applyChanges = FALSE
    /\ dc = EmptyMap
    /\ deployment = NilDoc
    /\ err = NoErr
    /\ conversionInfo = NoInfo
    /\ items = <<>>
    /\ visited = 0
    /\ conversionInfos = <<>>
    /\ saved = EmptyMap
    /\ applied = <<>>
    /\ logged = <<>>
    /\ outcomes = <<>>
    /\ ValidateIdle
    /\ pc = "invocations"

\* what no step of an invocation touches, besides the package-level state
InvocationFrame ==
    /\ UNCHANGED <<dc, deployment, err, pc, conversionInfo>>
    /\ UNCHANGED projectVars
    /\ UNCHANGED validateVars

\* wall-clock time passes while the invocations run
TickInvocations ==
    /\ pc = "invocations"
    /\ clock < MaxClock
    /\ clock' = clock + 1
    /\ UNCHANGED <<preserveLabels, preserveAnnotations, inv, flagWrites>>
    /\ InvocationFrame

\* converter_test.go 96-98: the policy flags are package-level variables that
\* any code of the package assigns
SetFlags ==
    /\ pc = "invocations"
    /\ flagWrites < MaxFlagWrites
    /\ flagWrites' = flagWrites + 1
    /\ preserveLabels' \in BOOLEAN
    /\ preserveAnnotations' \in BOOLEAN
    /\ UNCHANGED <<clock, inv>>
    /\ InvocationFrame

\* converter.go 79-87: the record of invocation v is built from its source
\* and a reading of the clock
BuildInfo(v) ==
    /\ pc = "invocations"
    /\ inv[v].stage = "start"
    /\ inv' = [inv EXCEPT ![v] =
                  [@ EXCEPT !.stage = "info",
                            !.tInfo = clock,
                            !.info = NewConversionInfo(inv[v].dc, namespace, clock)]]
    /\ UNCHANGED <<preserveLabels, preserveAnnotations, clock, flagWrites>>
    /\ InvocationFrame

\* the result r of convertDCtoDeployment, reached at clock reading t, stored
\* in a variable that every invocation shares
Invocations_finish_shared(i, v, r, t) ==
    [w \in DOMAIN i |->
        [i[w] EXCEPT !.stage = IF w = v THEN "done" ELSE @,
                     !.tMeta = IF w = v THEN t ELSE @,
                     !.dc = IF w = v THEN r.dc ELSE @,
                     !.deployment = r.deployment,
                     !.err = r.err]]

\* converter.go 122-141: convertDCtoDeployment returns r to invocation v: the
\* target is a fresh object of the invocation, the source its own argument
Invocations_finish(i, v, r, t) ==
    [i EXCEPT ![v] = [@ EXCEPT !.stage = "done",
                               !.tMeta = t,
                               !.dc = r.dc,
                               !.deployment = r.deployment,
                               !.err = r.err]]

\* converter.go 144-156: copyMetadata of invocation v fetches the metadata
\* and, when there are any, reads the package-level preserveLabels
ReadPreserveLabels(v) ==
    /\ pc = "invocations"
    /\ inv[v].stage = "info"
    /\ LET r == NestedMap(inv[v].dc, <<"metadata">>)
       IN  IF r.err # NoErr \/ ~r.found
           THEN inv' = Invocations_finish(inv, v,
                           convertDCtoDeployment(inv[v].dc, FALSE, FALSE, clock), clock)
           ELSE inv' = [inv EXCEPT ![v] =
                           [@ EXCEPT !.stage = "labels",
                                     !.pl = preserveLabels,
                                     !.reads = @ \cup {"preserveLabels"}]]
    /\ UNCHANGED <<preserveLabels, preserveAnnotations, clock, flagWrites>>
    /\ InvocationFrame

\* converter.go 171: copyMetadata reads the package-level preserveAnnotations
ReadPreserveAnnotations(v) ==
    /\ pc = "invocations"
    /\ inv[v].stage = "labels"
    /\ inv' = [inv EXCEPT ![v] =
                  [@ EXCEPT !.stage = "annotations",
                            !.pa = preserveAnnotations,
                            !.reads = @ \cup {"preserveAnnotations"}]]
    /\ UNCHANGED <<preserveLabels, preserveAnnotations, clock, flagWrites>>
    /\ InvocationFrame

\* converter.go 181-185 and 131-140: copyMetadata reads the clock and the
\* conversion runs to its end on the invocation's own documents
Finish(v) ==
    /\ pc = "invocations"
    /\ inv[v].stage = "annotations"
    /\ inv' = Invocations_finish(inv, v,
                  convertDCtoDeployment(inv[v].dc, inv[v].pl, inv[v].pa, clock), clock)
    /\ UNCHANGED <<preserveLabels, preserveAnnotations, clock, flagWrites>>
    /\ InvocationFrame

NextInvocations ==
    \/ TickInvocations
    \/ SetFlags
    \/ \E v \in InvocationIds : BuildInfo(v)
    \/ \E v \in InvocationIds : ReadPreserveLabels(v)
    \/ \E v \in InvocationIds : ReadPreserveAnnotations(v)
    \/ \E v \in InvocationIds : Finish(v)

SpecInvocations == InitInvocations /\ [][NextInvocations]_vars

-----------------------------------------------------------------------------
(* validateProjects and isReservedNamespace *)

MaxProjects == 2     \* at most this many projects are asked for

\* strings.HasPrefix(s, prefix)
HasPrefix(s, prefix) ==
    Len(s) >= Len(prefix) /\ SubSeq(s, 1, Len(prefix)) = prefix

\* utils.go 54-64: the prefix rule first, then the list
isReservedNamespace(ns, reserved) ==
    IF HasPrefix(ns, "openshift-") \/ HasPrefix(ns, "kube-") THEN TRUE
    ELSE \E k \in 1..Len(reserved) : ns = reserved[k]

\* main.go 196-203: the prefix rule is tested once per entry of the list
main_isReservedNamespace(ns, reserved) ==
    \E k \in 1..Len(reserved) :
        \/ ns = reserved[k]
        \/ HasPrefix(ns, "openshift-")
        \/ HasPrefix(ns, "kube-")

\* utils.go 34-48: the loop over projects from item k on, acc holding the
\* projects found valid so far; the warnings' log errors are dropped
RECURSIVE validateProjects_loop(_, _, _, _, _)
validateProjects_loop(projects, reserved, cluster, k, acc) ==
    IF k > Len(projects) THEN acc
    ELSE IF isReservedNamespace(projects[k], reserved)
    THEN validateProjects_loop(projects, reserved, cluster, k + 1, acc)
    ELSE IF projects[k] \notin cluster
    THEN validateProjects_loop(projects, reserved, cluster, k + 1, acc)
    ELSE validateProjects_loop(projects, reserved, cluster, k + 1,
                               Append(acc, projects[k]))

\* utils.go 31-52
validateProjects(projects, reserved, cluster) ==
    LET valid == validateProjects_loop(projects, reserved, cluster, 1, <<>>)
    IN  IF Len(valid) = 0
        THEN [projects |-> <<>>,
              err |-> "no valid projects found among the provided projects"]
        ELSE [projects |-> valid, err |-> NoErr]

\* main.go 172-188: the loop over projects from item k on; the namespace is
\* looked up first; a warning that cannot be logged ends the function
RECURSIVE main_validateProjects_loop(_, _, _, _, _, _)
main_validateProjects_loop(projects, reserved, cluster, logOk, k, acc) ==
    IF k > Len(projects)
    THEN IF Len(acc) = 0
         THEN [projects |-> <<>>,
               err |-> "no valid projects found among the provided projects"]
         ELSE [projects |-> acc, err |-> NoErr]
    ELSE IF projects[k] \notin cluster
    THEN IF ~logOk
         THEN [projects |-> <<>>, err |-> "error logging project validation warning"]
         ELSE main_validateProjects_loop(projects, reserved, cluster, logOk, k + 1, acc)
    ELSE IF main_isReservedNamespace(projects[k], reserved)
    THEN IF ~logOk
         THEN [projects |-> <<>>, err |-> "error logging reserved namespace warning"]
         ELSE main_validateProjects_loop(projects, reserved, cluster, logOk, k + 1, acc)
    ELSE main_validateProjects_loop(projects, reserved, cluster, logOk, k + 1,
                                    Append(acc, projects[k]))

\* main.go 170-194
main_validateProjects(projects, reserved, cluster, logOk) ==
    main_validateProjects_loop(projects, reserved, cluster, logOk, 1, <<>>)

\* the namespaces of utils_test.go 16-21 and of the flag's default, and one
\* that only begins like a system namespace
NamespaceNames ==
    {"my-project", "default", "openshift", "openshift-infra", "openshift-monitoring",
     "kube-system", "kube-public", "kubernetes"}

\* --reserved-namespaces: the default of main.go 57, the empty list, a list
\* of the user's own
ReservedLists ==
    { <<"default", "openshift", "openshift-infra">>, <<>>, <<"my-project">> }

\* --projects
ProjectLists == UNION {[1..n -> NamespaceNames] : n \in 0..MaxProjects}

InitValidate ==
    /\ openShiftProjects \in ProjectLists
    /\ reservedNamespaces \in ReservedLists
    /\ clusterNamespaces \in {NamespaceNames, NamespaceNames \ {"my-project"}}
    /\ validProjects = NotValidated
    /\ preserveLabels = TRUE
    /\ preserveAnnotations = TRUE
    /\ applyChanges = FALSE
    /\ namespace = ""
    /\ clock = 0
    /\ dc = EmptyMap
    /\ deployment = NilDoc
    /\ err = NoErr
    /\ conversionInfo = NoInfo
    /\ items = <<>>
    /\ visited = 0
    /\ conversionInfos = <<>>
    /\ saved = EmptyMap
    /\ applied = <<>>
    /\ logged = <<>>
    /\ outcomes = <<>>
    /\ ConcurrentIdle
    /\ pc = "validate"

\* what validateProjects leaves alone
ValidateFrame ==
    /\ UNCHANGED <<dc, preserveLabels, preserveAnnotations, clock, deployment, err,
                   conversionInfo>>
    /\ UNCHANGED projectVars
    /\ UNCHANGED <<openShiftProjects, reservedNamespaces, clusterNamespaces>>
    /\ UNCHANGED concurrentVars

\* utils.go 31-52: validateProjects(client, openShiftProjects)
ValidateProjects ==
    /\ pc = "validate"
    /\ validProjects' = validateProjects(openShiftProjects, reservedNamespaces,
                                         clusterNamespaces)
    /\ pc' = "validated"
    /\ ValidateFrame

\* main.go 170-194: validateProjects(clientset, openShiftProjects)
ValidateProjectsMain ==
    /\ pc = "validate"
    /\ \E logOk \in BOOLEAN :
          validProjects' = main_validateProjects(openShiftProjects, reservedNamespaces,
                                                 clusterNamespaces, logOk)
    /\ pc' = "validated.main"
    /\ ValidateFrame

NextValidate == ValidateProjects \/ ValidateProjectsMain

SpecValidate == InitValidate /\ [][NextValidate]_vars

-----------------------------------------------------------------------------
(* Reading documents in the properties below.  Field follows a path of    *)
(* keys through nested maps and yields Absent when a key is missing or a   *)
(* value on the way is not a map.                                          *)

RECURSIVE Field(_, _)
Field(v, path) ==
    IF path = <<>> THEN v
    ELSE IF v.kind = "map" /\ Head(path) \in DOMAIN v.val
    THEN Field(v.val[Head(path)], Tail(path))
    ELSE Absent

\* what Go reads at a key: nil when the key is missing
ValueOf(v) == IF v = Absent THEN VNil ELSE v
\* the entries of a field that is a map; none when it is anything else
EntriesOf(v) == IF v.kind = "map" THEN v.val ELSE EmptyMap

Src(path) == Field(VMap(dc), path)
Tgt(path) == IF deployment = NilDoc THEN Absent ELSE Field(VMap(deployment.Object), path)

\* convertDCtoDeployment of converter.go has returned
Converted == pc = "converter.go"
Succeeded == Converted /\ err = NoErr

\* every check of the conversion other than the strategy's passes
RequiredOK ==
    /\ Src(<<"metadata">>).kind = "map"
    /\ Src(<<"spec">>).kind = "map"
    /\ Src(<<"spec", "replicas">>).kind \in {"absent", "int64"}
    /\ Src(<<"spec", "selector">>).kind = "map"
    /\ Src(<<"spec", "template">>).kind = "map"

TypeOK ==
    /\ dc \in Documents
    /\ preserveLabels \in BOOLEAN /\ preserveAnnotations \in BOOLEAN
    /\ clock \in 0..MaxClock
    /\ pc \in {"ready", "converter.go", "main.go", "panic"}
    /\ (conversionInfo # NoInfo =>
            conversionInfo = NewConversionInfo(dc, namespace, 0)
            \/ conversionInfo = NewConversionInfo(dc, namespace, clock))
    /\ (deployment # NilDoc => err = NoErr)
    /\ (pc = "ready" => deployment = NilDoc /\ err = NoErr)

-----------------------------------------------------------------------------
(* C1 .. C10 *)

\* C1: whenever convertDCtoDeployment succeeds, the target has apiVersion
\* "apps/v1" and kind "Deployment", and its metadata.name and
\* metadata.namespace are the values read from the source's metadata
\* (a missing source field reads as nil, and the target then holds nil).
C1_KindAndIdentity ==
    Succeeded =>
        /\ Tgt(<<"apiVersion">>) = VStr("apps/v1")
        /\ Tgt(<<"kind">>) = VStr("Deployment")
        /\ ValueOf(Tgt(<<"metadata", "name">>)) = ValueOf(Src(<<"metadata", "name">>))
        /\ ValueOf(Tgt(<<"metadata", "namespace">>))
               = ValueOf(Src(<<"metadata", "namespace">>))

C1_Witness ==
    /\ Succeeded
    /\ Src(<<"metadata", "name">>) = VStr("test-dc")
    /\ Tgt(<<"metadata", "name">>) = VStr("test-dc")
    /\ Tgt(<<"metadata", "namespace">>) = VStr("test-namespace")
    /\ Tgt(<<"kind">>) = VStr("Deployment")

\* C2: a missing required field makes convertDCtoDeployment return an error
\* and the nil document.  The checks run in the order metadata, spec,
\* (replicas,) spec.selector, spec.template and the first failure is the one
\* returned, so the error names a missing field when every check before it
\* has passed.
C2_MissingRequiredField ==
    Converted =>
        /\ ( \/ Src(<<"metadata">>) = Absent
             \/ Src(<<"spec">>) = Absent
             \/ Src(<<"spec", "selector">>) = Absent
             \/ Src(<<"spec", "template">>) = Absent )
           => (err # NoErr /\ deployment = NilDoc)
        /\ Src(<<"metadata">>) = Absent
           => err = "failed to copy metadata: metadata not found in DeploymentConfig"
        /\ (Src(<<"metadata">>).kind = "map" /\ Src(<<"spec">>) = Absent)
           => err = "failed to convert spec: spec not found in DeploymentConfig"
        /\ ( /\ Src(<<"metadata">>).kind = "map"
             /\ Src(<<"spec">>).kind = "map"
             /\ Src(<<"spec", "replicas">>).kind \in {"absent", "int64"}
             /\ Src(<<"spec", "selector">>) = Absent )
           => err = "failed to convert spec: failed to set selector: "
                        \o "selector not found in DeploymentConfig spec"
        /\ ( /\ Src(<<"metadata">>).kind = "map"
             /\ Src(<<"spec">>).kind = "map"
             /\ Src(<<"spec", "replicas">>).kind \in {"absent", "int64"}
             /\ Src(<<"spec", "selector">>).kind = "map"
             /\ Src(<<"spec", "template">>) = Absent )
           => err = "failed to convert spec: failed to set template: "
                        \o "template not found in DeploymentConfig spec"

C2_Witness ==
    /\ Converted
    /\ Src(<<"metadata">>).kind = "map"
    /\ Src(<<"spec", "selector">>).kind = "map"
    /\ Src(<<"spec", "template">>) = Absent
    /\ deployment = NilDoc
    /\ err = "failed to convert spec: failed to set template: "
                 \o "template not found in DeploymentConfig spec"

\* C3: after a successful conversion the target's spec.replicas is 1 when the
\* source spec has no replicas field, and is the source's value when that is
\* an integer.
C3_Replicas ==
    Succeeded =>
        /\ Src(<<"spec", "replicas">>) = Absent => Tgt(<<"spec", "replicas">>) = VInt(1)
        /\ Src(<<"spec", "replicas">>).kind = "int64"
           => Tgt(<<"spec", "replicas">>) = Src(<<"spec", "replicas">>)

C3_Witness ==
    /\ Succeeded
    /\ Src(<<"spec", "replicas">>) = Absent
    /\ Tgt(<<"spec", "replicas">>) = VInt(1)

\* C4: after a successful conversion the target's spec.selector is exactly
\* {matchLabels: S}, S being the source selector without the key
\* "deploymentconfig" and with every other entry kept.
C4_Selector ==
    Succeeded =>
        LET sel == Src(<<"spec", "selector">>).val
            S == [k \in (DOMAIN sel) \ {"deploymentconfig"} |-> sel[k]]
        IN  /\ Tgt(<<"spec", "selector">>) = VMap("matchLabels" :> VMap(S))
            /\ Tgt(<<"spec", "selector", "matchLabels", "deploymentconfig">>) = Absent

C4_Witness ==
    /\ Succeeded
    /\ Src(<<"spec", "selector", "deploymentconfig">>) # Absent
    /\ Src(<<"spec", "selector", "app">>) # Absent
    /\ Tgt(<<"spec", "selector", "matchLabels", "app">>) = VStr("test-app")

\* C5: after a successful conversion the target's spec.template is the
\* source's spec.template with the key "deploymentconfig" deleted from
\* metadata.labels: same keys, every other subtree equal, the containers in
\* the same order.
C5_Template ==
    Succeeded =>
        LET st == Src(<<"spec", "template">>)
            tt == Tgt(<<"spec", "template">>)
            sm == Src(<<"spec", "template", "metadata">>)
            tm == Tgt(<<"spec", "template", "metadata">>)
            sl == Src(<<"spec", "template", "metadata", "labels">>)
            tl == Tgt(<<"spec", "template", "metadata", "labels">>)
        IN  /\ tt.kind = "map"
            /\ DOMAIN tt.val = DOMAIN st.val
            /\ \A k \in (DOMAIN st.val) \ {"metadata"} : tt.val[k] = st.val[k]
            /\ Tgt(<<"spec", "template", "spec", "containers">>)
                   = Src(<<"spec", "template", "spec", "containers">>)
            /\ sm.kind # "map" => tm = sm
            /\ sm.kind = "map" =>
                   /\ tm.kind = "map"
                   /\ DOMAIN tm.val = DOMAIN sm.val
                   /\ \A k \in (DOMAIN sm.val) \ {"labels"} : tm.val[k] = sm.val[k]
            /\ sl.kind # "map" => tl = sl
            /\ sl.kind = "map" =>
                   /\ tl.kind = "map"
                   /\ DOMAIN tl.val = (DOMAIN sl.val) \ {"deploymentconfig"}
                   /\ \A k \in DOMAIN tl.val : tl.val[k] = sl.val[k]

C5_Witness ==
    /\ Succeeded
    /\ Src(<<"spec", "template", "metadata", "labels", "deploymentconfig">>) # Absent
    /\ Tgt(<<"spec", "template", "metadata", "labels", "app">>) = VStr("test-app")
    /\ Tgt(<<"spec", "template", "metadata", "name">>) = VStr("pod")
    /\ Tgt(<<"spec", "template", "spec", "containers">>)
           = VSlice(<<Container("sidecar"), Container("web")>>)

\* the statement of C6 about the document one implementation has returned:
\* the type is "RollingUpdate" and the rollingUpdate mapping holds
\* maxUnavailable, and maxSurge, exactly when the source's rollingParams
\* does, with the source's value.
RollingCopied ==
    LET rp == EntriesOf(Src(<<"spec", "strategy", "rollingParams">>))
        ru == EntriesOf(Tgt(<<"spec", "strategy", "rollingUpdate">>))
    IN  /\ Tgt(<<"spec", "strategy", "type">>) = VStr("RollingUpdate")
        /\ DOMAIN EntriesOf(Tgt(<<"spec", "strategy">>)) \subseteq {"type", "rollingUpdate"}
        /\ DOMAIN ru \subseteq {"maxUnavailable", "maxSurge"}
        /\ \A k \in {"maxUnavailable", "maxSurge"} :
               /\ k \in DOMAIN ru <=> k \in DOMAIN rp
               /\ k \in DOMAIN ru => ru[k] = rp[k]

\* C6: for every source whose strategy type is "Rolling", the document
\* convertDCtoDeployment returns (converter.go's and main.go's alike) has
\* strategy type "RollingUpdate" and carries maxUnavailable and maxSurge
\* exactly when the source's rollingParams has them, values unchanged.
C6_RollingStrategy ==
    ( /\ pc \in {"converter.go", "main.go"}
      /\ err = NoErr
      /\ Src(<<"spec", "strategy", "type">>) = VStr("Rolling") )
    => RollingCopied

\* C6, for setStrategy of converter.go alone
C6_RollingStrategy_converter ==
    (Succeeded /\ Src(<<"spec", "strategy", "type">>) = VStr("Rolling")) => RollingCopied

\* C6, for main.go: string values are copied, any other value is dropped
C6_RollingStrategy_main ==
    ( /\ pc = "main.go"
      /\ err = NoErr
      /\ Src(<<"spec", "strategy", "type">>) = VStr("Rolling")
      /\ \A k \in {"maxUnavailable", "maxSurge"} :
             Src(<<"spec", "strategy", "rollingParams", k>>).kind \in {"absent", "string"} )
    => RollingCopied

\* C6, the case without rolling parameters: when the source's rollingParams
\* is absent or not a mapping, neither implementation writes a rollingUpdate
\* key, and the target's strategy is exactly {type: "RollingUpdate"}.
C6_RollingStrategy_noParams ==
    ( /\ pc \in {"converter.go", "main.go"}
      /\ err = NoErr
      /\ Src(<<"spec", "strategy", "type">>) = VStr("Rolling")
      /\ ~IsMap(Src(<<"spec", "strategy", "rollingParams">>)) )
    => Tgt(<<"spec", "strategy">>) = VMap("type" :> VStr("RollingUpdate"))

\* C7: for every source whose strategy type is "Recreate", the target's
\* spec.strategy is exactly {type: "Recreate"}.
C7_RecreateStrategy ==
    (Succeeded /\ Src(<<"spec", "strategy", "type">>) = VStr("Recreate"))
    => Tgt(<<"spec", "strategy">>) = VMap("type" :> VStr("Recreate"))

C7_Witness ==
    /\ Succeeded
    /\ Src(<<"spec", "strategy", "type">>) = VStr("Recreate")
    /\ Src(<<"spec", "strategy", "recreateParams">>) # Absent
    /\ Src(<<"spec", "strategy", "rollingParams">>) # Absent
    /\ Tgt(<<"spec", "strategy", "type">>) = VStr("Recreate")

\* C8: for every source whose strategy is a mapping with a type other than
\* "Rolling" and "Recreate" (another string, no type, a type that is no
\* string), the strategy stops no conversion (the conversion succeeds exactly
\* when every other check passes) and the target's spec.strategy is exactly
\* {type: "RollingUpdate"}, rollingParams or not.
C8_DefaultStrategy ==
    ( /\ Converted
      /\ Src(<<"spec", "strategy">>).kind = "map"
      /\ Src(<<"spec", "strategy", "type">>) \notin {VStr("Rolling"), VStr("Recreate")} )
    => /\ err = NoErr <=> RequiredOK
       /\ err = NoErr => Tgt(<<"spec", "strategy">>) = VMap("type" :> VStr("RollingUpdate"))

C8_Witness ==
    /\ Succeeded
    /\ Src(<<"spec", "strategy", "type">>) = VStr("Custom")
    /\ Src(<<"spec", "strategy", "rollingParams", "maxSurge">>) # Absent
    /\ Tgt(<<"spec", "strategy">>) = VMap("type" :> VStr("RollingUpdate"))

\* C9: for every source whose spec has no strategy field, the conversion
\* succeeds exactly when every other check passes, and the target's spec then
\* has no strategy field.
C9_NoStrategy ==
    ( /\ Converted
      /\ Src(<<"spec">>).kind = "map"
      /\ Src(<<"spec", "strategy">>) = Absent )
    => /\ err = NoErr <=> RequiredOK
       /\ err = NoErr => Tgt(<<"spec", "strategy">>) = Absent

C9_Witness ==
    /\ Succeeded
    /\ Src(<<"spec", "strategy">>) = Absent
    /\ Tgt(<<"spec", "strategy">>) = Absent
    /\ Tgt(<<"spec", "replicas">>) # Absent

\* the annotation keys that belong to a DeploymentConfig
StripList ==
    { "openshift.io/deployment-config.name",
      "openshift.io/deployment-config.latest-version",
      "openshift.io/deployment.phase" }

\* C10: after a successful conversion the target's metadata.annotations is
\* the base mapping overlaid with "openshift.io/generated-by" =
\* "deploymentconfig-to-deployment-migration" and an
\* "openshift.io/migration-timestamp" in RFC 3339 form; the base is empty
\* when preserveAnnotations is false, and is the source's annotations
\* without the keys of the strip list when it is true.
C10_Annotations ==
    Succeeded =>
        LET sa == EntriesOf(Src(<<"metadata", "annotations">>))
            base == IF preserveAnnotations
                    THEN [k \in (DOMAIN sa) \ StripList |-> sa[k]]
                    ELSE EmptyMap
            fixed == {"openshift.io/generated-by", "openshift.io/migration-timestamp"}
            ta == Tgt(<<"metadata", "annotations">>)
        IN  /\ ta.kind = "map"
            /\ DOMAIN ta.val = (DOMAIN base) \cup fixed
            /\ ta.val["openshift.io/generated-by"]
                   = VStr("deploymentconfig-to-deployment-migration")
            /\ ta.val["openshift.io/migration-timestamp"]
                   \in {VStr(FormatRFC3339(t)) : t \in 0..MaxClock}
            /\ \A k \in (DOMAIN base) \ fixed : ta.val[k] = base[k]

C10_Witness ==
    /\ Succeeded
    /\ preserveAnnotations
    /\ Src(<<"metadata", "annotations", "openshift.io/generated-by">>)
           = VStr("OpenShiftWebConsole")
    /\ Src(<<"metadata", "annotations", "openshift.io/deployment-config.name">>) # Absent
    /\ Tgt(<<"metadata", "annotations", "description">>) = VStr("kept")
    /\ Tgt(<<"metadata", "annotations", "openshift.io/generated-by">>)
           = VStr("deploymentconfig-to-deployment-migration")
    /\ Tgt(<<"metadata", "annotations", "openshift.io/deployment-config.name">>) = Absent

-----------------------------------------------------------------------------
(* C11 .. C20 *)

\* the label keys that belong to a DeploymentConfig
LabelStripList == {"openshift.io/deployment-config.name"}

\* the source's labels without the keys of the strip list
KeptLabels ==
    LET sl == EntriesOf(Src(<<"metadata", "labels">>))
    IN  [k \in (DOMAIN sl) \ LabelStripList |-> sl[k]]

\* the statement of C11 about the document one implementation has returned
LabelsGoverned ==
    IF preserveLabels /\ DOMAIN KeptLabels # {}
    THEN Tgt(<<"metadata", "labels">>) = VMap(KeptLabels)
    ELSE Tgt(<<"metadata", "labels">>) = Absent

\* C11: in the document convertDCtoDeployment returns (converter.go's and
\* main.go's alike) metadata.labels is the source's labels without the keys
\* of the strip list when preserveLabels is true, the field being left out
\* when nothing remains, and is left out when preserveLabels is false.
C11_Labels ==
    (pc \in {"converter.go", "main.go"} /\ err = NoErr) => LabelsGoverned

\* C11, for copyMetadata of converter.go alone
C11_Labels_converter ==
    Succeeded => LabelsGoverned

\* C11, for main.go: with preserveLabels the labels field is always written,
\* as the empty mapping when nothing remains or when a label is not a string
C11_Labels_main ==
    (pc = "main.go" /\ err = NoErr) =>
        IF ~preserveLabels THEN Tgt(<<"metadata", "labels">>) = Absent
        ELSE IF \A k \in DOMAIN EntriesOf(Src(<<"metadata", "labels">>)) :
                    IsStr(Src(<<"metadata", "labels", k>>))
        THEN Tgt(<<"metadata", "labels">>) = VMap(KeptLabels)
        ELSE Tgt(<<"metadata", "labels">>) = VMap(EmptyMap)

\* C12: after a successful conversion the target has no spec.triggers, no
\* spec.test and no spec.paused, whatever the source had; and
\* cleanupDeploymentConfig run on that document, which has none of the
\* three, leaves it as it is.
C12_Cleanup ==
    Succeeded =>
        /\ Tgt(<<"spec", "triggers">>) = Absent
        /\ Tgt(<<"spec", "test">>) = Absent
        /\ Tgt(<<"spec", "paused">>) = Absent
        /\ cleanupDeploymentConfig(deployment.Object) = deployment.Object

C12_Witness ==
    /\ Succeeded
    /\ Src(<<"spec", "triggers">>).kind = "slice"
    /\ Src(<<"spec", "test">>) = VBool(FALSE)
    /\ Src(<<"spec", "paused">>) = VBool(TRUE)
    /\ Tgt(<<"spec", "replicas">>).kind = "int64"
    /\ Tgt(<<"spec", "paused">>) = Absent

\* C13: when the source's metadata is a mapping without a name,
\* convertDCtoDeployment returns an error and no document.
C13_MissingName ==
    ( /\ Converted
      /\ IsMap(Src(<<"metadata">>))
      /\ Src(<<"metadata", "name">>) = Absent )
    => (err # NoErr /\ deployment = NilDoc)

\* C13, what copyMetadata does: a missing name is no error, and the target's
\* metadata holds the key name with the nil value
C13_MissingName_nil ==
    ( /\ Converted
      /\ IsMap(Src(<<"metadata">>))
      /\ Src(<<"metadata", "name">>) = Absent
      /\ RequiredOK
      /\ Src(<<"spec", "strategy">>).kind \in {"absent", "map"} )
    => (err = NoErr /\ Tgt(<<"metadata", "name">>) = VNil)

\* the four required fields are present as mappings
RequiredPresent ==
    /\ IsMap(Src(<<"metadata">>))
    /\ IsMap(Src(<<"spec">>))
    /\ IsMap(Src(<<"spec", "selector">>))
    /\ IsMap(Src(<<"spec", "template">>))

\* C14 as stated: when metadata, spec, spec.selector and spec.template are
\* present as mappings, convertDCtoDeployment succeeds, whatever replicas,
\* strategy, labels and annotations are.
C14_OnlyMissingFieldsFail ==
    (Converted /\ RequiredPresent) => err = NoErr

\* C14, amended: when the four required fields are present as mappings,
\* convertDCtoDeployment succeeds exactly when replicas is absent or an
\* int64 and strategy is absent or a mapping, whatever the labels, the
\* annotations and the strategy's type are; otherwise it returns an error
\* and no document.
C14_FailureCauses ==
    (Converted /\ RequiredPresent) =>
        /\ err = NoErr <=>
               /\ Src(<<"spec", "replicas">>).kind \in {"absent", "int64"}
               /\ Src(<<"spec", "strategy">>).kind \in {"absent", "map"}
        /\ err # NoErr => deployment = NilDoc

C14_Witness ==
    /\ Converted
    /\ RequiredPresent
    /\ Src(<<"spec", "replicas">>) = VStr("3")
    /\ Src(<<"spec", "strategy">>) = Absent
    /\ err # NoErr
    /\ deployment = NilDoc

\* the ConversionInfo of dc has been built (converter.go 79-87)
Inspected == conversionInfo # NoInfo

Hooks == {"pre", "mid", "post"}
Hook(h) == Src(<<"spec", "strategy", "recreateParams", h>>)

\* C15 as stated: hasLifecycleHooks is true iff at least one of
\* spec.strategy.recreateParams.pre, .mid, .post is present, with a value of
\* any kind.
C15_LifecycleHooks_anyValue ==
    Inspected =>
        (conversionInfo.HasLifecycleHooks <=> \E h \in Hooks : Hook(h) # Absent)

\* C15, amended: hasLifecycleHooks is true iff at least one of
\* spec.strategy.recreateParams.pre, .mid, .post is present as a mapping, an
\* empty one included; a hook of any other kind counts as absent, and the
\* result is false when spec, strategy or recreateParams is missing.
C15_LifecycleHooks ==
    Inspected =>
        (conversionInfo.HasLifecycleHooks <=> \E h \in Hooks : IsMap(Hook(h)))

C15_Witness ==
    /\ Inspected
    /\ Hook("pre") = VStr("not-a-map")
    /\ Hook("mid") = Absent
    /\ IsMap(Hook("post"))
    /\ conversionInfo.HasLifecycleHooks

\* C16: hasTriggers is true iff spec.triggers is a sequence with at least
\* one element; false for an absent field, an empty sequence, a value that
\* is not a sequence, or a missing spec.
C16_Triggers ==
    Inspected =>
        (conversionInfo.HasTriggers <=>
            /\ Src(<<"spec", "triggers">>).kind = "slice"
            /\ Len(Src(<<"spec", "triggers">>).val) > 0)

C16_Witness ==
    /\ Inspected
    /\ Src(<<"spec", "triggers">>) = VSlice(<<VMap([type |-> VStr("ConfigChange")])>>)
    /\ conversionInfo.HasTriggers

\* C17: hasAutoRollbacks is true iff
\* spec.strategy.rollingParams.autoRollbackEnabled is the boolean true; false
\* when it is absent, false, not a boolean, or a part of the path is missing.
C17_AutoRollbacks ==
    Inspected =>
        (conversionInfo.HasAutoRollbacks <=>
            Src(<<"spec", "strategy", "rollingParams", "autoRollbackEnabled">>)
                = VBool(TRUE))

C17_Witness ==
    /\ Inspected
    /\ Src(<<"spec", "strategy", "rollingParams", "autoRollbackEnabled">>) = VBool(TRUE)
    /\ conversionInfo.HasAutoRollbacks

\* C18: usesCustomStrategies is true iff spec.strategy.type is the string
\* "Custom", compared exactly; false for any other value and when spec,
\* strategy or type is missing.
C18_CustomStrategies ==
    Inspected =>
        (conversionInfo.UsesCustomStrategies <=>
            Src(<<"spec", "strategy", "type">>) = VStr("Custom"))

C18_Witness ==
    /\ Inspected
    /\ Src(<<"spec", "strategy", "type">>) = VStr("Custom")
    /\ conversionInfo.UsesCustomStrategies

\* C19: convertDCtoDeployment of converter.go leaves the source document as
\* it was, whether it succeeds or fails, and the four predicates recorded
\* before the call are those of the source after it.
C19_PredicateIndependence ==
    [][ pc' = "converter.go" =>
            /\ dc' = dc
            /\ conversionInfo # NoInfo =>
                   /\ conversionInfo.HasTriggers = hasTriggers(dc')
                   /\ conversionInfo.HasLifecycleHooks = hasLifecycleHooks(dc')
                   /\ conversionInfo.HasAutoRollbacks = hasAutoRollbacks(dc')
                   /\ conversionInfo.UsesCustomStrategies = usesCustomStrategies(dc')
      ]_vars

C19_Witness ==
    /\ Succeeded
    /\ Inspected
    /\ conversionInfo.HasTriggers
    /\ Src(<<"spec", "selector", "deploymentconfig">>) = VStr("test-dc")
    /\ Src(<<"spec", "template", "metadata", "labels", "deploymentconfig">>)
           = VStr("test-dc")
    /\ Tgt(<<"spec", "selector", "matchLabels", "deploymentconfig">>) = Absent

\* C20: when processProject has gone through the N DeploymentConfigs of a
\* project, N records have been added to conversionInfos, the documents
\* whose conversion failed included.
C20_OneRecordPerDocument ==
    pc = "done" => Len(conversionInfos) = Len(items)

\* C20, what processProject does: a document adds a record only when its
\* conversion and the write of its YAML file succeeded and nothing panicked;
\* each of the others is reported to the log instead
C20_RecordsOfSavedOnly ==
    pc = "done" =>
        /\ Len(outcomes) = Len(items)
        /\ Len(conversionInfos)
               = Cardinality({k \in 1..Len(outcomes) :
                                  /\ outcomes[k].converted
                                  /\ outcomes[k].save = "ok"
                                  /\ outcomes[k].apply # "panic"})

-----------------------------------------------------------------------------
(* C21 .. C27 *)

\* every key/value pair of the mapping at path a is one of the mapping at path b
PairsWithin(a, b) ==
    \A k \in DOMAIN EntriesOf(a) :
        k \in DOMAIN EntriesOf(b) /\ EntriesOf(b)[k] = EntriesOf(a)[k]

\* C26: when every key/value pair of the source's spec.selector is also in
\* its spec.template.metadata.labels, a successful conversion gives a target
\* in which every pair of spec.selector.matchLabels is also in
\* spec.template.metadata.labels.
C26_SelectorMatchesTemplate ==
    ( /\ Succeeded
      /\ PairsWithin(Src(<<"spec", "selector">>),
                     Src(<<"spec", "template", "metadata", "labels">>)) )
    => /\ IsMap(Tgt(<<"spec", "selector", "matchLabels">>))
       /\ PairsWithin(Tgt(<<"spec", "selector", "matchLabels">>),
                      Tgt(<<"spec", "template", "metadata", "labels">>))

C26_Witness ==
    /\ Succeeded
    /\ Src(<<"spec", "selector">>) = VMap(SelectorFull)
    /\ Src(<<"spec", "template", "metadata", "labels">>) = VMap(SelectorFull)
    /\ Tgt(<<"spec", "selector", "matchLabels">>) = VMap("app" :> VStr("test-app"))
    /\ Tgt(<<"spec", "template", "metadata", "labels">>)
           = VMap("app" :> VStr("test-app"))

\* C27: after a successful conversion the target's top-level keys are
\* exactly apiVersion, kind, metadata and spec; metadata has no key other
\* than name, namespace, labels and annotations; spec has no key other than
\* replicas, selector, template and strategy.
C27_AllowList ==
    Succeeded =>
        /\ DOMAIN deployment.Object = {"apiVersion", "kind", "metadata", "spec"}
        /\ IsMap(Tgt(<<"metadata">>))
        /\ DOMAIN Tgt(<<"metadata">>).val
               \subseteq {"name", "namespace", "labels", "annotations"}
        /\ IsMap(Tgt(<<"spec">>))
        /\ DOMAIN Tgt(<<"spec">>).val
               \subseteq {"replicas", "selector", "template", "strategy"}

C27_Witness ==
    /\ Succeeded
    /\ Src(<<"metadata", "uid">>) = VStr("8a0d")
    /\ Src(<<"status", "latestVersion">>) = VInt(1)
    /\ Src(<<"spec", "revisionHistoryLimit">>) = VInt(10)
    /\ Src(<<"spec", "paused">>) = VBool(TRUE)
    /\ Tgt(<<"metadata", "uid">>) = Absent
    /\ Tgt(<<"status">>) = Absent
    /\ Tgt(<<"spec", "revisionHistoryLimit">>) = Absent
    /\ Tgt(<<"spec", "replicas">>).kind = "int64"

\* the step processProject takes at an item of the list: whatever happens to
\* the item, the loop stays alive and has attempted exactly that item
C21_Step ==
    pc = "loop" /\ visited < Len(items) =>
        /\ pc' = "loop"
        /\ visited' = visited + 1
        /\ Len(outcomes') = visited'
        /\ conversionInfo'.DeploymentConfigName = GetName(items[visited + 1])
        /\ \A k \in (visited + 2)..Len(items) : items'[k] = items[k]

\* C21: in processProject a failure stays with its document: an error or a
\* panic while one DeploymentConfig is converted, saved or applied never keeps
\* the loop from the documents after it; every document of the list is
\* attempted, in list order, and processProject then returns without error.
C21_FailuresIsolated ==
    /\ [][C21_Step]_vars
    /\ [](pc = "done" => visited = Len(items) /\ Len(outcomes) = Len(items))
    /\ [](pc = "loop" => (visited <= Len(items) /\ Len(outcomes) = visited))
    /\ [][pc = "loop" => pc' \in {"loop", "done"}]_vars
    /\ [][pc = "loop" /\ visited = Len(items) => pc' = "done"]_vars

\* processProject has returned from a list of two whose first document
\* panicked while it was saved and whose second was recorded
C21_Witness ==
    /\ pc = "done"
    /\ Len(items) = 2
    /\ outcomes[1].save = "panic"
    /\ ProcessDC_recorded(outcomes[2])
    /\ Len(conversionInfos) = 1

\* C25: applyDeployment is invoked for a DeploymentConfig only when applyChanges
\* is true and saveDeploymentYAML succeeded in the same iteration: never for a
\* document whose conversion or save failed, and with applyChanges false no
\* Deployment is created in the cluster.
C25_ApplyOnlyAfterSave ==
    /\ \A k \in 1..Len(outcomes) :
           outcomes[k].apply # "skipped" =>
               /\ applyChanges
               /\ outcomes[k].converted
               /\ outcomes[k].save = "ok"
    /\ ~applyChanges => applied = <<>>
    /\ Len(applied) = Cardinality({k \in 1..Len(outcomes) : outcomes[k].apply = "ok"})
    /\ \A k \in 1..Len(applied) : Has(saved, GetName(applied[k]))

\* under applyChanges a first document failed to save and was not applied, a
\* second was saved and applied
C25_Witness ==
    /\ applyChanges
    /\ Len(outcomes) = 2
    /\ outcomes[1].save = "error"
    /\ outcomes[1].apply = "skipped"
    /\ outcomes[2].apply = "ok"
    /\ Len(applied) = 1

\* invocation v has returned
Done(v) == inv[v].stage = "done"

\* the target of invocation v without its migration-timestamp annotation
Untimed(v) ==
    IF inv[v].err # NoErr THEN inv[v].deployment
    ELSE RemoveNestedField(inv[v].deployment.Object,
                           <<"metadata", "annotations", MigrationTimestampKey>>)

\* invocations v and w were given equal source documents and read equal policy
SameInputs(v, w) ==
    /\ Done(v) /\ Done(w)
    /\ inv[v].source = inv[w].source
    /\ inv[v].pl = inv[w].pl
    /\ inv[v].pa = inv[w].pa

\* C22, as stated: two invocations with equal source document and equal policy
\* produce equal targets, migration-timestamp annotation included, and equal
\* records, however much wall-clock time passes between or during them.
C22_Deterministic ==
    \A v \in InvocationIds : \A w \in InvocationIds :
        SameInputs(v, w) =>
            /\ inv[v].deployment = inv[w].deployment
            /\ inv[v].info = inv[w].info

\* C22, amended: two invocations with equal source document and equal policy
\* produce targets equal in all but the migration-timestamp annotation and
\* records equal in all but the timestamp; the annotation and the record's
\* timestamp render the clock as read inside the invocation, so they agree
\* when the clock read the same and only then.
C22_DeterministicButTimestamps ==
    /\ \A v \in InvocationIds : \A w \in InvocationIds :
           SameInputs(v, w) =>
               /\ inv[v].err = inv[w].err
               /\ Untimed(v) = Untimed(w)
               /\ [inv[v].info EXCEPT !.Timestamp = ""]
                      = [inv[w].info EXCEPT !.Timestamp = ""]
               /\ (inv[v].info = inv[w].info) <=> (inv[v].tInfo = inv[w].tInfo)
               /\ inv[v].err = NoErr =>
                      ((inv[v].deployment = inv[w].deployment)
                           <=> (inv[v].tMeta = inv[w].tMeta))
    /\ \A v \in InvocationIds :
           Done(v) =>
               /\ inv[v].t0 <= inv[v].tInfo
               /\ inv[v].tInfo <= inv[v].tMeta
               /\ inv[v].tMeta <= clock
               /\ inv[v].info.Timestamp = FormatRFC3339(inv[v].tInfo)
               /\ inv[v].err = NoErr =>
                      Field(VMap(inv[v].deployment.Object),
                            <<"metadata", "annotations", MigrationTimestampKey>>)
                          = VStr(FormatRFC3339(inv[v].tMeta))

\* two invocations on equal documents under equal policy succeeded at
\* different clock readings: their targets and records differ
C22_Witness ==
    /\ SameInputs("A", "B")
    /\ inv["A"].err = NoErr
    /\ inv["A"].tMeta # inv["B"].tMeta
    /\ inv["A"].tInfo # inv["B"].tInfo
    /\ inv["A"].deployment # inv["B"].deployment
    /\ inv["A"].info # inv["B"].info
    /\ Untimed("A") = Untimed("B")

\* what invocation v produces when it runs alone under policy pl, pa with
\* the clock read at tInfo for the record and at tMeta for the annotation
Alone(v, pl, pa) ==
    [ info |-> NewConversionInfo(inv[v].source, namespace, inv[v].tInfo),
      deployment |-> convertDCtoDeployment(inv[v].source, pl, pa, inv[v].tMeta).deployment,
      err |-> convertDCtoDeployment(inv[v].source, pl, pa, inv[v].tMeta).err ]

\* what invocation v has produced
Produced(v) ==
    [info |-> inv[v].info, deployment |-> inv[v].deployment, err |-> inv[v].err]

C23_OwnStateOnly ==
    \A v \in InvocationIds : \A w \in InvocationIds :
        (v # w /\ inv'[v] # inv[v]) => inv'[w] = inv[w]

\* a step of an invocation writes neither the policy flags nor the record
\* aggregate nor anything else outside the invocation
C23_WritesNothingShared ==
    inv' # inv =>
        /\ preserveLabels' = preserveLabels
        /\ preserveAnnotations' = preserveAnnotations
        /\ conversionInfos' = conversionInfos
        /\ UNCHANGED <<dc, deployment, err, conversionInfo, items, saved, applied, logged>>

ReservedRule(ns) ==
    \/ HasPrefix(ns, "openshift-")
    \/ HasPrefix(ns, "kube-")
    \/ \E k \in 1..Len(reservedNamespaces) : ns = reservedNamespaces[k]

\* C24: isReservedNamespace(ns) is true iff ns starts with "openshift-" or
\* "kube-" or equals an entry of the configured list, whatever the list holds,
\* the empty list included, and validateProjects never returns a namespace
\* for which that is true.
C24_ReservedNeverValid ==
    /\ \A ns \in NamespaceNames :
           /\ isReservedNamespace(ns, reservedNamespaces) <=> ReservedRule(ns)
           /\ main_isReservedNamespace(ns, reservedNamespaces) <=> ReservedRule(ns)
    /\ validProjects # NotValidated =>
           \A k \in 1..Len(validProjects.projects) :
               ~ReservedRule(validProjects.projects[k])

\* C24, what holds of utils.go: its isReservedNamespace follows the rule for
\* every list, and its validateProjects returns no reserved namespace and
\* only namespaces of the cluster that were asked for
C24_ReservedNeverValid_utils ==
    /\ \A ns \in NamespaceNames :
           isReservedNamespace(ns, reservedNamespaces) <=> ReservedRule(ns)
    /\ pc = "validated" =>
           /\ \A k \in 1..Len(validProjects.projects) :
                  /\ ~ReservedRule(validProjects.projects[k])
                  /\ validProjects.projects[k] \in clusterNamespaces
                  /\ \E j \in 1..Len(openShiftProjects) :
                         openShiftProjects[j] = validProjects.projects[k]
           /\ (validProjects.err = NoErr) <=> (validProjects.projects # <<>>)

\* C24, main.go with an empty list: a system namespace of the cluster is
\* returned as a valid project
C24_MainReturnsReserved ==
    /\ pc = "validated.main"
    /\ reservedNamespaces = <<>>
    /\ validProjects.err = NoErr
    /\ \E k \in 1..Len(validProjects.projects) :
           validProjects.projects[k] = "kube-system"

====
